---- MODULE Spec2Model ----
(***************************************************************************)
(* The chart monitor of stock_monitor.py: the column classifier            *)
(* (ImageProcessor.detect_line_crossing), the log-file history             *)
(* (NotificationManager) and the polling loop                              *)
(* (StockChartMonitor.monitor_line_crossings).                             *)
(*                                                                         *)
(* The history is the log file: a sequence of lines.  A line is modelled   *)
(* by the date of its "[YYYY-MM-DD HH:MM:SS]" prefix (day), the fixed text *)
(* of its message (msg) and the variable text that follows it (arg).  The  *)
(* code recovers its state from the file by substring and regex matching;  *)
(* the readers below do the same matching on msg and arg.                  *)
(***************************************************************************)
EXTENDS Integers, Sequences, FiniteSets, TLC

\* ---------------------------------------------------------------- bounds
MaxCols == 4        \* widest analysed region, in columns
MaxDay == 2         \* calendar days 1..MaxDay
MaxPolls == 3       \* analysed images in Spec
MaxFaultPolls == 2  \* analysed images in SpecFaults
MaxRunPolls == 2    \* analysed images in SpecRun, over all runs
MaxIdle == 1        \* loop iterations of SpecRun that analyse nothing
MaxRuns == 2        \* starts of the monitor process in SpecRun
MaxIOPolls == 2     \* analysed images in SpecIO
MaxRestartPolls == 2  \* analysed images in SpecRestart, over all runs
MaxSharedPolls == 3   \* analysed images in SpecShared, over both processes
MaxRun == 3           \* longest run of one label in the two-run regions
MaxPixels == 7        \* most red, and most black, pixels counted in a column
MaxBeyond == 1        \* how far image sizes lie from the default bounds
MaxOver == 2          \* differing pixels counted beyond IMAGE_DIFF_THRESHOLD
MaxImages == 3        \* image files of a test-harness run
MaxValues == 4        \* longest list of values given to determine_color
MaxValue == 3         \* the values are 1..MaxValue
MaxDate == 3          \* the dates of the data are 1..MaxDate
MaxStoredValue == 2   \* the values saved are 1..MaxStoredValue
MaxExtraDates == 1    \* dates saved beyond those the history keeps
MaxData == 3          \* most days of data a fetch returns
MaxChecks == 2        \* calls of check_once in SpecCheck
MaxSlot == 3          \* the times of day are the slots 0..MaxSlot
MaxIterations == 4    \* iterations of the numeric monitor's loop

\* ------------------------------------------------------------- constants
IMAGE_DIFF_THRESHOLD == 100
DEFAULT_START_Y == 125
DEFAULT_END_Y == 403
DEFAULT_START_X == 620
DEFAULT_END_X == 650
\* The entries _clean_history keeps.
HISTORY_LIMIT == 10

Colors    == {"red", "black"}
Labels    == {"red", "black", "unknown"}
Crossings == {"red_to_black", "black_to_red"}
None      == "None"
\* No image: last_saved_image is None.  A downloaded image is identified by the
\* number of the loop iteration that downloaded it.
NoImage   == 0
\* No file in downloaded_charts.
NoFile    == [ day |-> 0, image |-> NoImage ]

\* The regions of the concrete scenario (5 columns): a line that turns from
\* red to black, and a line that is black throughout.
RedThenBlack == <<"red", "red", "red", "black", "black">>
AllBlack     == <<"black", "black", "black", "black", "black">>
ScenarioRegions == { RedThenBlack, AllBlack }

\* The column-label sequences an analysed region can have.
Regions == (UNION { [1..n -> Labels] : n \in 1..MaxCols }) \cup ScenarioRegions

\* ------------------------------------------------------------ classifier
Max(S) == CHOOSE x \in S : \A y \in S : y <= x
Min(S) == CHOOSE x \in S : \A y \in S : x <= y

\* An optional bound of extract_middle_section: << >> is None, << v >> is v.
NoBound == << >>

\* The slice a[start:end] of an axis of n elements, for start, end >= 0: the
\* offset of its first element and its length.
Slice(start, end, n) ==
  LET first == Min({start, n})
      stop  == Min({end, n})
  IN  [ offset |-> first, size |-> Max({0, stop - first}) ]

\* ImageProcessor.extract_middle_section on an image (not None) of the given
\* height and width: the region image[start_y:end_y, start_x:end_x], as its
\* offset and size along each axis.
extract_middle_section(height, width, start_x, end_x, start_y, end_y) ==
  LET y0 == IF start_y = NoBound THEN DEFAULT_START_Y ELSE start_y[1]
      y1 == IF end_y = NoBound THEN DEFAULT_END_Y ELSE end_y[1]
      x0 == IF start_x = NoBound \/ end_x = NoBound
              THEN Min({DEFAULT_START_X, width})
              ELSE Max({0, Min({start_x[1], width - 1})})
      x1 == IF start_x = NoBound \/ end_x = NoBound
              THEN Min({DEFAULT_END_X, width})
              ELSE Max({x0 + 1, Min({end_x[1], width})})
      y0c == Max({0, Min({y0, height - 1})})
      y1c == Max({y0c + 1, Min({y1, height})})
  IN  [ rows |-> Slice(y0c, y1c, height), cols |-> Slice(x0, x1, width) ]

\* column_color without the correction for the fixed red line.
column_color_unadjusted(col_red_pixels, col_black_pixels) ==
  IF col_red_pixels > 0 /\ col_red_pixels >= col_black_pixels THEN "red"
  ELSE IF col_black_pixels > 0 /\ col_black_pixels >= col_red_pixels
    THEN "black"
  ELSE "unknown"

\* The label detect_line_crossing gives a column, from the numbers of red and
\* of black pixels counted in it.
column_color(col_red_pixels, col_black_pixels) ==
  LET adjusted_red_pixels == Max({0, col_red_pixels - 1})
  IN  IF adjusted_red_pixels > 0 /\ adjusted_red_pixels >= col_black_pixels
        THEN "red"
      ELSE IF col_black_pixels > 0 /\ col_black_pixels >= adjusted_red_pixels
        THEN "black"
      ELSE "unknown"

\* get_rightmost_column_color scanning from the left (reversed() forgotten).
get_leftmost_column_color(column_colors) ==
  LET known == { i \in 1..Len(column_colors) : column_colors[i] \in Colors }
  IN  IF known = {} THEN "unknown"
      ELSE column_colors[CHOOSE i \in known : \A j \in known : i <= j]

\* get_rightmost_column_color returning the last label, known or not.
get_last_column_color(column_colors) ==
  IF column_colors = << >> THEN "unknown"
  ELSE column_colors[Len(column_colors)]

\* ImageProcessor.get_rightmost_column_color
get_rightmost_column_color(column_colors) ==
  LET known == { i \in 1..Len(column_colors) : column_colors[i] # "unknown" }
  IN  IF column_colors = << >> THEN "unknown"
      ELSE IF known = {} THEN "unknown"
      ELSE column_colors[Max(known)]

\* transitions looking back over unknown columns to the last known one.
transitions_across_unknown(column_colors, a, b) ==
  LET idx == [ i \in 1..(Len(column_colors) - 1) |-> i ]
  IN  SelectSeq(idx, LAMBDA i :
        /\ column_colors[i + 1] = b
        /\ \E j \in 1..i :
              /\ column_colors[j] = a
              /\ \A k \in (j + 1)..i : column_colors[k] = "unknown")

\* transitions with the positions counted from 1.
transitions_one_based(column_colors, a, b) ==
  LET idx == [ i \in 1..(Len(column_colors) - 1) |-> i + 1 ]
  IN  SelectSeq(idx, LAMBDA i : column_colors[i - 1] = a /\ column_colors[i] = b)

\* The indices i of range(1, len(column_colors)) with column_colors[i-1] = a
\* and column_colors[i] = b, in increasing order.  Indices are the code's,
\* counted from 0: column i is column_colors[i + 1] here.
transitions(column_colors, a, b) ==
  LET idx == [ i \in 1..(Len(column_colors) - 1) |-> i ]
  IN  SelectSeq(idx, LAMBDA i : column_colors[i] = a /\ column_colors[i + 1] = b)

\* dominant_transition comparing with >=: a tie goes to red_to_black.
dominant_transition_ties_red(red_to_black_count, black_to_red_count) ==
  IF red_to_black_count >= black_to_red_count /\ red_to_black_count > 0
    THEN "red_to_black"
  ELSE IF black_to_red_count > red_to_black_count /\ black_to_red_count > 0
    THEN "black_to_red"
  ELSE "no_crossing"

\* The dominant transition, from the two counts.
dominant_transition(red_to_black_count, black_to_red_count) ==
  IF red_to_black_count > black_to_red_count /\ red_to_black_count > 0
    THEN "red_to_black"
  ELSE IF black_to_red_count > red_to_black_count /\ black_to_red_count > 0
    THEN "black_to_red"
  ELSE "no_crossing"

Range(s) == { s[i] : i \in 1..Len(s) }

\* detect_line_crossing without the early return, taking an unknown column
\* that follows a red or black one for a column of the other colour.
detect_line_crossing_unknown_as_colour(column_colors) ==
  LET idx == [ i \in 1..(Len(column_colors) - 1) |-> i ]
      left(a) == SelectSeq(idx, LAMBDA i : /\ column_colors[i] = a
                                           /\ column_colors[i + 1] # a)
  IN  [ result          |-> dominant_transition(Len(left("red")),
                                                Len(left("black"))),
        rightmost_color |-> get_rightmost_column_color(column_colors),
        red_to_black    |-> left("red"),
        black_to_red    |-> left("black") ]

\* ImageProcessor.detect_line_crossing, from the column labels on: the result,
\* the rightmost colour and (the debug mode's) transition lists.
detect_line_crossing(column_colors) ==
  IF "red" \notin Range(column_colors) \/ "black" \notin Range(column_colors)
  THEN [ result          |-> "no_crossing",
         rightmost_color |-> get_rightmost_column_color(column_colors),
         red_to_black    |-> << >>,
         black_to_red    |-> << >> ]
  ELSE LET red_to_black_transitions == transitions(column_colors, "red", "black")
           black_to_red_transitions == transitions(column_colors, "black", "red")
       IN  [ result          |-> dominant_transition(Len(red_to_black_transitions),
                                                     Len(black_to_red_transitions)),
             rightmost_color |-> get_rightmost_column_color(column_colors),
             red_to_black    |-> red_to_black_transitions,
             black_to_red    |-> black_to_red_transitions ]

\* images_are_different with no tolerance: any pixel that differs counts.
images_are_different_any_pixel(img1, img2, same_shape, non_zero_count) ==
  IF img1 = NoImage \/ img2 = NoImage THEN TRUE
  ELSE IF ~same_shape THEN TRUE
  ELSE non_zero_count > 0

\* ImageProcessor.images_are_different: img1 is the downloaded image, img2
\* the last saved one (NoImage when there is none), same_shape whether their
\* shapes agree, non_zero_count the number of pixels that differ.
images_are_different(img1, img2, same_shape, non_zero_count) ==
  IF img1 = NoImage \/ img2 = NoImage THEN TRUE
  ELSE IF ~same_shape THEN TRUE
  ELSE non_zero_count > IMAGE_DIFF_THRESHOLD

\* --------------------------------------------------------------- history
\* The fixed texts of the log messages.
LineCrossing     == "Line crossing detected:"
CurrentColor     == "Current line color:"
Downloaded       == "Image successfully downloaded"
DownloadFailed   == "No new image available - download failed"
Comparing        == "Comparing newly downloaded image with existing image"
NewImage         == "New image detected"
ImageSaved       == "Image saved as:"
Unchanged        == "Chart image unchanged since last check"
Entering         == "Entering monitoring window at"
Exiting          == "Exiting monitoring window at"
Started          == "Monitoring started for"
RecentChart      == "Most recent chart image:"
RecentColor      == "Most recent detected color:"
WindowLine       == "Monitoring window:"
ContinuousLine   == "Monitoring continuously (24/7)"
RecentSaved      == "Recent saved chart detected:"
Stopped          == "Monitoring stopped by user"
EmailSent        == "EMAIL SENT:"
EmailError       == "EMAIL ERROR:"
MonitoringError  == "Monitoring stopped due to error:"

Line(day, msg, arg) == [ day |-> day, msg |-> msg, arg |-> arg ]

\* log_transition opening the file for writing instead of appending.
log_transition_overwriting(lines, day, msg, arg) == << Line(day, msg, arg) >>

\* NotificationManager.log_transition, the file part: one line appended.
log_transition(lines, day, msg, arg) == Append(lines, Line(day, msg, arg))

\* get_last_logged_crossing scanning from the oldest line (reversed()
\* forgotten).
get_first_logged_crossing(lines, readable) ==
  LET hits == { i \in 1..Len(lines) :
                  lines[i].msg = LineCrossing /\ lines[i].arg \in Crossings }
  IN  IF ~readable THEN "no_crossing"
      ELSE IF hits = {} THEN "no_crossing"
      ELSE lines[CHOOSE i \in hits : \A j \in hits : i <= j].arg

\* NotificationManager.get_last_logged_crossing.  readable is FALSE when the
\* file cannot be read (the except branch).
get_last_logged_crossing(lines, readable) ==
  LET hits == { i \in 1..Len(lines) :
                  lines[i].msg = LineCrossing /\ lines[i].arg \in Crossings }
  IN  IF ~readable THEN "no_crossing"
      ELSE IF hits = {} THEN "no_crossing"
      ELSE lines[Max(hits)].arg

\* get_last_color taking whatever word follows "Current line color:" for the
\* colour, "unknown" included.
get_last_color_any_word(lines, readable) ==
  LET hits == { i \in 1..Len(lines) : lines[i].msg = CurrentColor }
  IN  IF ~readable THEN None
      ELSE IF hits = {} THEN None
      ELSE lines[Max(hits)].arg

\* The last colour of the log, as monitor_line_crossings reads it before a
\* decision: the newest "Current line color:" line whose colour is red or
\* black; None when there is none or the file cannot be read.
get_last_color(lines, readable) ==
  LET hits == { i \in 1..Len(lines) :
                  lines[i].msg = CurrentColor /\ lines[i].arg \in Colors }
  IN  IF ~readable THEN None
      ELSE IF hits = {} THEN None
      ELSE lines[Max(hits)].arg

\* logged_today without the date pattern.
logged_any_day(lines, current_crossing, today) ==
  \E i \in 1..Len(lines) :
     /\ lines[i].msg = LineCrossing
     /\ lines[i].arg = current_crossing

\* Whether a line dated today carries "Line crossing detected: <kind>".
logged_today(lines, current_crossing, today) ==
  \E i \in 1..Len(lines) :
     /\ lines[i].day = today
     /\ lines[i].msg = LineCrossing
     /\ lines[i].arg = current_crossing

\* The reads of the log file one decision makes, each in a try block of its
\* own: whether each of them succeeds.
Readable == [ last_crossing       : BOOLEAN,   \* get_last_logged_crossing
              last_color          : BOOLEAN,   \* the last colour
              should_log_crossing : BOOLEAN,   \* should_log_transition: last kind
              should_log_today    : BOOLEAN ]  \* should_log_transition: today
AllReadable == [ last_crossing |-> TRUE, last_color |-> TRUE,
                 should_log_crossing |-> TRUE, should_log_today |-> TRUE ]

\* should_log_transition without its rules: every crossing is logged.
should_log_transition_always(current_crossing, lines, today, readable) ==
  current_crossing # "no_crossing"

\* should_log_transition with rule 1 only: a crossing is logged when it differs
\* from the last one.
should_log_transition_new_kind(current_crossing, lines, today, readable) ==
  /\ current_crossing # "no_crossing"
  /\ get_last_logged_crossing(lines, readable.should_log_crossing)
       # current_crossing

\* should_log_transition failing closed: a crossing is not logged when the
\* file cannot be read.
should_log_transition_fail_closed(current_crossing, lines, today, readable) ==
  IF current_crossing = "no_crossing" THEN FALSE
  ELSE IF ~readable.should_log_crossing \/ ~readable.should_log_today THEN FALSE
  ELSE IF get_last_logged_crossing(lines, TRUE) # current_crossing THEN TRUE
  ELSE ~logged_today(lines, current_crossing, today)

\* should_log_transition logging a crossing again when the delivery for its
\* last entry failed.
should_log_transition_retrying(current_crossing, lines, today, readable) ==
  LET hits == { i \in 1..Len(lines) :
                  lines[i].msg = LineCrossing /\ lines[i].arg \in Crossings }
      failed == /\ hits # {}
                /\ Max(hits) < Len(lines)
                /\ lines[Max(hits) + 1].msg = EmailError
  IN  IF current_crossing = "no_crossing" THEN FALSE
      ELSE IF get_last_logged_crossing(lines, readable.should_log_crossing)
                # current_crossing THEN TRUE
      ELSE IF ~readable.should_log_today THEN TRUE
      ELSE failed \/ ~logged_today(lines, current_crossing, today)

\* NotificationManager.should_log_transition.
should_log_transition(current_crossing, lines, today, readable) ==
  IF current_crossing = "no_crossing" THEN FALSE
  ELSE IF get_last_logged_crossing(lines, readable.should_log_crossing)
            # current_crossing THEN TRUE
  ELSE IF ~readable.should_log_today THEN TRUE
  ELSE ~logged_today(lines, current_crossing, today)

\* manual_color_crossing taking every colour other than the last one for the
\* opposite colour, "unknown" included.
manual_color_crossing_any_change(last_color, rightmost_color) ==
  IF last_color # None /\ last_color # rightmost_color
  THEN IF last_color = "red" THEN "red_to_black" ELSE "black_to_red"
  ELSE "no_crossing"

\* manual_color_crossing with the two kinds exchanged.
manual_color_crossing_swapped(last_color, rightmost_color) ==
  IF last_color # None /\ last_color # rightmost_color
  THEN IF last_color = "red" /\ rightmost_color = "black" THEN "black_to_red"
       ELSE IF last_color = "black" /\ rightmost_color = "red" THEN "red_to_black"
       ELSE "no_crossing"
  ELSE "no_crossing"

\* The colour change the classifier may have missed.
manual_color_crossing(last_color, rightmost_color) ==
  IF last_color # None /\ last_color # rightmost_color
  THEN IF last_color = "red" /\ rightmost_color = "black" THEN "red_to_black"
       ELSE IF last_color = "black" /\ rightmost_color = "red" THEN "black_to_red"
       ELSE "no_crossing"
  ELSE "no_crossing"

\* effective_crossing preferring the inferred crossing to the detected one.
effective_crossing_manual_first(current_crossing, manual) ==
  IF manual # "no_crossing" THEN manual ELSE current_crossing

\* The crossing the decision is taken on.
effective_crossing(current_crossing, manual) ==
  IF current_crossing = "no_crossing" /\ manual # "no_crossing"
  THEN manual ELSE current_crossing

\* ----------------------------------------------------------------- state
VARIABLES
  log,                \* the log file: the persisted history, a sequence of lines
  clock,              \* the calendar day datetime.now() returns
  pc,                 \* the monitor process: "stopped", "running" (in the
                      \* loop) or "crashed" (the loop left by an exception)
  monitoring_window,  \* monitor_line_crossings' parameter of the current run
  was_in_window,      \* the loop's was_in_window
  last_saved_image,   \* self.last_saved_image: NoImage or an image
  chart_file,         \* the newest file of downloaded_charts: NoFile or [day, image]
  emails,             \* history: the calls of send_email_notification
  polls,              \* history: the decisions taken, one per analysed image
  iter,               \* loop iterations so far
  idle,               \* those of them that analysed nothing
  runs,               \* starts of the process so far
  pending,            \* per monitor process sharing the log file: the decision
                      \* it has taken and not yet written, if any
  call,               \* a call of a pure function: its argument and result
  state_file,         \* the numeric monitor's nysi_state.json
  data_received_today, \* the numeric monitor's loop variable
  last_check_date,    \* self._last_check_date: << >> until first assigned
  time_of_day,        \* the part of the day datetime.now().time() falls in
  saved_dates         \* history: the dates passed to save_state since the
                      \* state file last lost its history

vars == << log, clock, pc, monitoring_window, was_in_window, last_saved_image,
           chart_file, emails, polls, iter, idle, runs, pending, call,
           state_file, data_received_today, last_check_date, time_of_day,
           saved_dates >>

\* The numeric monitor's part of the state.
numeric_vars == << state_file, data_received_today, last_check_date,
                  time_of_day, saved_dates >>

\* The monitor processes that may share one log file.
Monitors == {"first", "second"}

\* No state file on disk.
NoStateFile == [ kind |-> "missing", history |-> << >>, last |-> << >> ]

\* The numeric monitor not started.
NumericAtRest ==
  /\ state_file = NoStateFile
  /\ data_received_today = FALSE
  /\ last_check_date = << >>
  /\ time_of_day = 0
  /\ saved_dates = {}

\* No call of a pure function is under way.
NoCall == [ f |-> "none" ]

\* What send_email_notification can come to: the message is sent, the SMTP
\* exchange fails, or the configuration is missing and nothing is attempted.
EmailOutcomes == {"sent", "error", "skipped"}

\* The clock reads of a decision and of the lines it writes, in program
\* order.  Midnight may fall between two of them: the reads from position cut
\* on return the next day.  (Midnight before the first of them is a Tick
\* before the iteration, as far as anything the code reads back can tell.)
Reads == << "today", "crossing", "email", "color" >>
Pos(read) == CHOOSE i \in 1..Len(Reads) : Reads[i] = read
NoCut == Len(Reads) + 1
Cuts(first_read) ==
  {NoCut} \cup (IF clock < MaxDay THEN Pos(first_read)..Len(Reads) ELSE {})
Now(read, cut) == IF Pos(read) >= cut THEN clock + 1 ELSE clock

\* What a comparison of the downloaded image with the last saved one can
\* find: the shapes agree or not, and the number of differing pixels.
Comparisons ==
  [ same_shape : BOOLEAN,
    non_zero_count : {0, IMAGE_DIFF_THRESHOLD, IMAGE_DIFF_THRESHOLD + 1} ]

Init ==
  /\ log = << >>
  /\ clock = 1
  /\ pc = "stopped"
  /\ monitoring_window = FALSE
  /\ was_in_window = FALSE
  /\ last_saved_image = NoImage
  /\ chart_file = NoFile
  /\ emails = << >>
  /\ polls = << >>
  /\ iter = 0
  /\ idle = 0
  /\ runs = 0
  /\ pending = [ m \in Monitors |-> << >> ]
  /\ NumericAtRest
  /\ call = NoCall

\* Midnight passes while the loop sleeps or the process is down.
Tick ==
  /\ clock < MaxDay
  /\ clock' = clock + 1
  /\ UNCHANGED << pending, call, numeric_vars >>
  /\ UNCHANGED << log, pc, monitoring_window, was_in_window, last_saved_image,
                  chart_file, emails, polls, iter, idle, runs >>

\* The lines of the start message, all with one timestamp.
start_message(lines, day, window, readable) ==
  LET last_color == get_last_color(lines, readable)
      l1 == log_transition(lines, day, Started, "")
      l2 == IF chart_file # NoFile THEN log_transition(l1, day, RecentChart, "") ELSE l1
      l3 == IF last_color # None
            THEN log_transition(l2, day, RecentColor, last_color) ELSE l2
  IN  log_transition(l3, day, IF window THEN WindowLine ELSE ContinuousLine, "")

\* StockChartMonitor.__init__ and monitor_line_crossings up to the loop.
Start(window, readable) ==
  /\ pc = "stopped"
  /\ runs' = runs + 1
  /\ pc' = "running"
  /\ monitoring_window' = window
  /\ was_in_window' = FALSE
  /\ last_saved_image' = chart_file.image
  /\ LET l1 == start_message(log, clock, window, readable)
     IN  log' = IF chart_file # NoFile /\ chart_file.day = clock
                THEN log_transition(l1, clock, RecentSaved, "") ELSE l1
  /\ UNCHANGED << pending, call, numeric_vars >>
  /\ UNCHANGED << clock, chart_file, emails, polls, iter, idle >>

\* KeyboardInterrupt while the loop sleeps.
Stop ==
  /\ pc = "running"
  /\ pc' = "stopped"
  /\ log' = log_transition(log, clock, Stopped, "")
  /\ UNCHANGED << pending, call, numeric_vars >>
  /\ UNCHANGED << clock, monitoring_window, was_in_window, last_saved_image,
                  chart_file, emails, polls, iter, idle, runs >>

\* enter_window without the test of was_in_window.
enter_window_every_time(lines, day) ==
  IF monitoring_window
  THEN log_transition(lines, day, Entering, "") ELSE lines

\* The head of a loop iteration inside the window: the entering line.
enter_window(lines, day) ==
  IF monitoring_window /\ ~was_in_window
  THEN log_transition(lines, day, Entering, "") ELSE lines

\* A loop iteration outside the monitoring window.
IterateOutside ==
  /\ pc = "running"
  /\ monitoring_window
  /\ iter' = iter + 1
  /\ idle' = idle + 1
  /\ log' = IF was_in_window THEN log_transition(log, clock, Exiting, "") ELSE log
  /\ was_in_window' = FALSE
  /\ UNCHANGED << pending, call, numeric_vars >>
  /\ UNCHANGED << clock, pc, monitoring_window, last_saved_image, chart_file,
                  emails, polls, runs >>

\* A loop iteration whose download fails.
PollDownloadFailed ==
  /\ pc = "running"
  /\ iter' = iter + 1
  /\ idle' = idle + 1
  /\ was_in_window' = TRUE
  /\ log' = log_transition(enter_window(log, clock), clock, DownloadFailed, "")
  /\ UNCHANGED << pending, call, numeric_vars >>
  /\ UNCHANGED << clock, pc, monitoring_window, last_saved_image, chart_file,
                  emails, polls, runs >>

\* The lines every successful download writes before the comparison.
downloaded(lines, day) ==
  log_transition(
    log_transition(enter_window(lines, day), day, Downloaded, ""),
    day, Comparing, IF last_saved_image # NoImage THEN "existing" ELSE "")

\* PollUnchanged with self.last_saved_image updated outside the test for a
\* new image.
PollUnchanged_keeping_image ==
  /\ pc = "running"
  /\ \E c \in Comparisons :
        ~images_are_different(iter + 1, last_saved_image,
                              c.same_shape, c.non_zero_count)
  /\ iter' = iter + 1
  /\ idle' = idle + 1
  /\ was_in_window' = TRUE
  /\ log' = log_transition(downloaded(log, clock), clock, Unchanged, "")
  /\ last_saved_image' = iter'
  /\ UNCHANGED << pending, call, numeric_vars >>
  /\ UNCHANGED << clock, pc, monitoring_window, chart_file,
                  emails, polls, runs >>

\* A loop iteration whose image is not different from the last saved one.
PollUnchanged ==
  /\ pc = "running"
  /\ \E c \in Comparisons :
        ~images_are_different(iter + 1, last_saved_image,
                              c.same_shape, c.non_zero_count)
  /\ iter' = iter + 1
  /\ idle' = idle + 1
  /\ was_in_window' = TRUE
  /\ log' = log_transition(downloaded(log, clock), clock, Unchanged, "")
  /\ UNCHANGED << pending, call, numeric_vars >>
  /\ UNCHANGED << clock, pc, monitoring_window, last_saved_image, chart_file,
                  emails, polls, runs >>

\* How each read of the log file of one decision went: "ok", "failed", or
\* "skipped" when the decision does not come to it: should_log_transition is
\* called for a crossing only, and looks for today's entries only when the last
\* crossing it read is the current one.
reads_made(effective, lines, readable) ==
  LET went(ok) == IF ok THEN "ok" ELSE "failed"
      called   == effective # "no_crossing"
      scanned  == /\ called
                  /\ get_last_logged_crossing(lines, readable.should_log_crossing)
                       = effective
  IN  [ last_crossing       |-> went(readable.last_crossing),
        last_color          |-> went(readable.last_color),
        should_log_crossing |-> IF called
                                THEN went(readable.should_log_crossing)
                                ELSE "skipped",
        should_log_today    |-> IF scanned
                                THEN went(readable.should_log_today)
                                ELSE "skipped" ]

\* The decision of monitor_line_crossings on a new image whose region has the
\* labels column_colors, with the log as lines: what it read and derived.
decide(column_colors, lines, today, readable) ==
  LET crossing_result == detect_line_crossing(column_colors)
      last_color      == get_last_color(lines, readable.last_color)
      manual          == manual_color_crossing(last_color,
                                               crossing_result.rightmost_color)
      effective       == effective_crossing(crossing_result.result, manual)
  IN  [ current_crossing      |-> crossing_result.result,
        rightmost_color       |-> crossing_result.rightmost_color,
        last_crossing         |-> get_last_logged_crossing(lines,
                                    readable.last_crossing),
        last_color            |-> last_color,
        manual_color_crossing |-> manual,
        effective_crossing    |-> effective,
        notify                |-> /\ effective # "no_crossing"
                                  /\ should_log_transition(effective, lines,
                                                           today, readable),
        today                 |-> today,
        reads                 |-> reads_made(effective, lines, readable) ]

\* send_email_notification undoing the append of the entry whose delivery
\* failed.
send_email_notification_rollback(st, day, crossing_type, outcome, line) ==
  [ lines  |-> IF outcome = "sent"
               THEN Append(st.lines, Line(day, EmailSent, ""))
               ELSE IF outcome = "error"
               THEN SubSeq(st.lines, 1, Len(st.lines) - 1)
               ELSE st.lines,
    emails |-> Append(st.emails, [ crossing_type |-> crossing_type,
                                   outcome       |-> outcome,
                                   line          |-> line ]) ]

\* NotificationManager.send_email_notification: the line a sent or failed
\* message leaves in the file, and the call, recorded in emails.  st is the pair
\* [lines, emails]; line is the number of the log line that caused the call.
send_email_notification(st, day, crossing_type, outcome, line) ==
  [ lines  |-> IF outcome = "sent"
               THEN Append(st.lines, Line(day, EmailSent, ""))
               ELSE IF outcome = "error"
               THEN Append(st.lines, Line(day, EmailError, ""))
               ELSE st.lines,
    emails |-> Append(st.emails, [ crossing_type |-> crossing_type,
                                   outcome       |-> outcome,
                                   line          |-> line ]) ]

\* NotificationManager.log_transition with send_email=True (the default).
log_and_email(st, day, email_day, msg, arg, outcome) ==
  send_email_notification(
    [ lines |-> log_transition(st.lines, day, msg, arg), emails |-> st.emails ],
    email_day, arg, outcome, Len(st.lines) + 1)

\* NotificationManager.log_transition with send_email=False.
log_only(st, day, msg, arg) ==
  [ lines |-> log_transition(st.lines, day, msg, arg), emails |-> st.emails ]

\* record with send_email=False forgotten on the colour snapshots of the
\* decisions that do not notify.
record_emailing_snapshot(st, d, outcome, cut) ==
  IF d.notify
  THEN log_only(
         log_and_email(st, Now("crossing", cut), Now("email", cut),
                       LineCrossing, d.effective_crossing, outcome),
         Now("color", cut), CurrentColor, d.rightmost_color)
  ELSE log_and_email(st, Now("color", cut), Now("color", cut),
                     CurrentColor, d.rightmost_color, outcome)

\* record without the colour snapshot of the no_crossing branch.
record_without_snapshot(st, d, outcome, cut) ==
  IF d.notify
  THEN log_only(
         log_and_email(st, Now("crossing", cut), Now("email", cut),
                       LineCrossing, d.effective_crossing, outcome),
         Now("color", cut), CurrentColor, d.rightmost_color)
  ELSE IF d.effective_crossing # "no_crossing"
  THEN log_only(st, Now("color", cut), CurrentColor, d.rightmost_color)
  ELSE st

\* record with the two lines of a notifying decision exchanged.
record_snapshot_first(st, d, outcome, cut) ==
  IF d.notify
  THEN log_and_email(
         log_only(st, Now("crossing", cut), CurrentColor, d.rightmost_color),
         Now("color", cut), Now("color", cut),
         LineCrossing, d.effective_crossing, outcome)
  ELSE IF d.effective_crossing # "no_crossing"
  THEN IF d.effective_crossing = d.last_crossing
       THEN log_only(st, Now("color", cut), CurrentColor, d.rightmost_color)
       ELSE st
  ELSE log_only(st, Now("color", cut), CurrentColor, d.rightmost_color)

\* What the decision d writes and sends: the branches of
\* monitor_line_crossings after the decision.
record(st, d, outcome, cut) ==
  IF d.notify
  THEN log_only(
         log_and_email(st, Now("crossing", cut), Now("email", cut),
                       LineCrossing, d.effective_crossing, outcome),
         Now("color", cut), CurrentColor, d.rightmost_color)
  ELSE IF d.effective_crossing # "no_crossing"
  THEN IF d.effective_crossing = d.last_crossing
       THEN log_only(st, Now("color", cut), CurrentColor, d.rightmost_color)
       ELSE st
  ELSE log_only(st, Now("color", cut), CurrentColor, d.rightmost_color)

\* A loop iteration whose image is new: it is saved, analysed and decided on.
\* readable: which reads of the log file succeed during this iteration;
\* midnight: whether midnight may fall inside the decision;
\* save_ok: whether save_chart_image writes the file (its except branch
\* otherwise: no file, no "Image saved as" line; the image is still kept in
\* self.last_saved_image).
PollImage(column_colors, readable, midnight, save_ok) ==
  /\ pc = "running"
  /\ \E c \in Comparisons :
        images_are_different(iter + 1, last_saved_image,
                             c.same_shape, c.non_zero_count)
  /\ iter' = iter + 1
  /\ was_in_window' = TRUE
  /\ LET new   == log_transition(downloaded(log, clock), clock, NewImage, "")
         saved == IF save_ok
                  THEN log_transition(new, clock, ImageSaved, "") ELSE new
         d     == decide(column_colors, saved, clock, readable)
     IN  \E outcome \in (IF d.notify THEN EmailOutcomes ELSE {"skipped"}),
            cut \in (IF midnight
                     THEN Cuts(IF d.notify THEN "crossing" ELSE "color")
                     ELSE {NoCut}) :
           LET done == record([ lines |-> saved, emails |-> emails ],
                              d, outcome, cut)
           IN  /\ log' = done.lines
               /\ emails' = done.emails
               /\ polls' = Append(polls, d @@ [ first |-> Len(saved),
                                                last  |-> Len(done.lines) ])
               /\ clock' = Now("color", cut)
  /\ last_saved_image' = iter'
  /\ chart_file' = IF save_ok THEN [ day |-> clock, image |-> iter' ]
                   ELSE chart_file
  /\ UNCHANGED << pending, call, numeric_vars >>
  /\ UNCHANGED << pc, monitoring_window, idle, runs >>

\* The same iteration when the chart file is written.
PollNewImage(column_colors, readable, midnight) ==
  PollImage(column_colors, readable, midnight, TRUE)

\* The classifier's verdict on a region: all the decision reads of it.
verdict(column_colors) ==
  LET crossing_result == detect_line_crossing(column_colors)
  IN  << crossing_result.result, crossing_result.rightmost_color >>

\* The regions polled: one region for every verdict the classifier gives on a
\* region of up to MaxCols columns, and the scenario's regions.
Polled ==
  { CHOOSE column_colors \in Regions : verdict(column_colors) = v :
      v \in { verdict(column_colors) : column_colors \in Regions } }
  \cup ScenarioRegions

\* One run of the monitor in continuous mode, every download a new image;
\* midnight may fall inside a decision.
Next ==
  \/ Tick
  \/ Start(FALSE, TRUE)
  \/ /\ Len(polls) < MaxPolls
     /\ \E column_colors \in Polled : PollNewImage(column_colors, AllReadable, TRUE)

Spec == Init /\ [][Next]_vars

\* The same run, with a log file that some reads fail on.
NextFaults ==
  \/ Tick
  \/ Start(FALSE, TRUE)
  \/ /\ Len(polls) < MaxFaultPolls
     /\ \E column_colors \in Polled, readable \in Readable :
           PollNewImage(column_colors, readable, FALSE)

SpecFaults == Init /\ [][NextFaults]_vars

\* The monitor over its runs: started with or without the monitoring window,
\* stopped and started again, with iterations outside the window, failed
\* downloads and unchanged images.  The images polled are the scenario's.
NextRun ==
  \/ Tick
  \/ /\ runs < MaxRuns
     /\ \E window \in BOOLEAN, readable \in BOOLEAN : Start(window, readable)
  \/ Stop
  \/ idle < MaxIdle /\ IterateOutside
  \/ idle < MaxIdle /\ PollDownloadFailed
  \/ idle < MaxIdle /\ PollUnchanged
  \/ /\ Len(polls) < MaxRunPolls
     /\ \E column_colors \in ScenarioRegions :
           PollNewImage(column_colors, AllReadable, FALSE)

SpecRun == Init /\ [][NextRun]_vars

\* A loop iteration one of whose appends to the log file fails, here the
\* first: log_transition does not catch the exception of open or write, and
\* none of its callers in the loop does, so it reaches the handler around the
\* loop, which tries to log the error (error_logged: with success) and
\* returns.
IterateAppendFailed(error_logged) ==
  /\ pc = "running"
  /\ pc' = "crashed"
  /\ iter' = iter + 1
  /\ idle' = idle + 1
  /\ log' = IF error_logged
            THEN log_transition(log, clock, MonitoringError, "")
            ELSE log
  /\ UNCHANGED << pending, call, numeric_vars >>
  /\ UNCHANGED << clock, monitoring_window, was_in_window, last_saved_image,
                  chart_file, emails, polls, runs >>

\* The monitor with its I/O collaborators failing: the download, the reads
\* of the log file, the email delivery, and the appends to the log file.
NextIO ==
  \/ Tick
  \/ Start(FALSE, TRUE)
  \/ idle < MaxIdle /\ PollDownloadFailed
  \/ /\ Len(polls) < MaxIOPolls
     /\ \E column_colors \in ScenarioRegions, readable \in Readable :
           PollNewImage(column_colors, readable, FALSE)
  \/ idle < MaxIdle /\ \E error_logged \in BOOLEAN :
                         IterateAppendFailed(error_logged)

SpecIO == Init /\ [][NextIO]_vars

\* The monitor stopped and started again between polls, with a chart file
\* that save_chart_image may fail to write.
NextRestart ==
  \/ Tick
  \/ runs < MaxRuns /\ Start(FALSE, TRUE)
  \/ Stop
  \/ idle < MaxIdle /\ PollUnchanged
  \/ /\ Len(polls) < MaxRestartPolls
     /\ \E column_colors \in ScenarioRegions, save_ok \in BOOLEAN :
           PollImage(column_colors, AllReadable, FALSE, save_ok)

SpecRestart == Init /\ [][NextRestart]_vars

\* Two monitor processes on one log file.  The iteration on a new image is
\* taken in its two halves, which nothing in the code holds together: monitor
\* m downloads, compares, saves, reads the log and decides (Observe), and
\* later writes what it decided (Commit); the other process may act between
\* the two.  read_at is the length of the log m read.
Observe(m, column_colors) ==
  /\ pc = "running"
  /\ pending[m] = << >>
  /\ iter' = iter + 1
  /\ LET saved == log_transition(
                    log_transition(downloaded(log, clock), clock, NewImage, ""),
                    clock, ImageSaved, "")
         d     == decide(column_colors, saved, clock, AllReadable)
     IN  /\ log' = saved
         /\ pending' = [ pending EXCEPT
                           ![m] = << d @@ [ read_at |-> Len(saved) ] >> ]
  /\ was_in_window' = TRUE
  /\ last_saved_image' = iter'
  /\ chart_file' = [ day |-> clock, image |-> iter' ]
  /\ UNCHANGED << clock, pc, monitoring_window, emails, polls, idle, runs,
                  call, numeric_vars >>

Commit(m) ==
  /\ pending[m] # << >>
  /\ LET d == pending[m][1]
     IN  \E outcome \in (IF d.notify THEN EmailOutcomes ELSE {"skipped"}) :
            LET done == record([ lines |-> log, emails |-> emails ],
                               d, outcome, NoCut)
            IN  /\ log' = done.lines
                /\ emails' = done.emails
                /\ polls' = Append(polls, d @@ [ first |-> Len(log),
                                                 last  |-> Len(done.lines) ])
  /\ pending' = [ pending EXCEPT ![m] = << >> ]
  /\ UNCHANGED << clock, pc, monitoring_window, was_in_window,
                  last_saved_image, chart_file, iter, idle, runs, call, numeric_vars >>

NextShared ==
  \/ Tick
  \/ Start(FALSE, TRUE)
  \/ /\ iter < MaxSharedPolls
     /\ \E m \in Monitors, column_colors \in ScenarioRegions :
           Observe(m, column_colors)
  \/ \E m \in Monitors : Commit(m)

SpecShared == Init /\ [][NextShared]_vars

\* ----------------------------------------------------- the classifier alone
\* n columns of one label.
Repeat(label, n) == [ i \in 1..n |-> label ]

\* k black columns followed by m red ones.
BlackThenRed(k, m) == Repeat("black", k) \o Repeat("red", m)

\* The label sequences the classifier is called on.
ClassifierInputs ==
  Regions \cup { BlackThenRed(k, m) : k \in 1..MaxRun, m \in 1..MaxRun }

\* A call of detect_line_crossing (debug mode: the transition lists are part
\* of the result) on one of these label sequences, not yet made.
InitClassify ==
  /\ log = << >>
  /\ clock = 1
  /\ pc = "stopped"
  /\ monitoring_window = FALSE
  /\ was_in_window = FALSE
  /\ last_saved_image = NoImage
  /\ chart_file = NoFile
  /\ emails = << >>
  /\ polls = << >>
  /\ iter = 0
  /\ idle = 0
  /\ runs = 0
  /\ pending = [ m \in Monitors |-> << >> ]
  /\ NumericAtRest
  /\ \E column_colors \in ClassifierInputs :
        call = [ f |-> "detect_line_crossing", arg |-> column_colors,
                 done |-> FALSE ]

Classify ==
  /\ call.f = "detect_line_crossing"
  /\ ~call.done
  /\ call' = [ f |-> call.f, arg |-> call.arg, done |-> TRUE,
               result |-> detect_line_crossing(call.arg) ]
  /\ UNCHANGED << log, clock, pc, monitoring_window, was_in_window,
                  last_saved_image, chart_file, emails, polls, iter, idle,
                  runs, pending, numeric_vars >>

NextClassify == Classify

SpecClassify == InitClassify /\ [][NextClassify]_vars

\* --------------------------------------------------- one column's label
\* The monitor is not running and has done nothing.
MonitorAtRest ==
  /\ log = << >>
  /\ clock = 1
  /\ pc = "stopped"
  /\ monitoring_window = FALSE
  /\ was_in_window = FALSE
  /\ last_saved_image = NoImage
  /\ chart_file = NoFile
  /\ emails = << >>
  /\ polls = << >>
  /\ iter = 0
  /\ idle = 0
  /\ runs = 0
  /\ pending = [ m \in Monitors |-> << >> ]
  /\ NumericAtRest

\* One pass of the loop over the columns, on a column with the given counts
\* of red and black pixels in the two masks.
InitLabel ==
  /\ MonitorAtRest
  /\ \E col_red_pixels \in 0..MaxPixels, col_black_pixels \in 0..MaxPixels :
        call = [ f |-> "column_color",
                 arg |-> << col_red_pixels, col_black_pixels >>,
                 done |-> FALSE ]

LabelColumn ==
  /\ call.f = "column_color"
  /\ ~call.done
  /\ call' = [ f |-> call.f, arg |-> call.arg, done |-> TRUE,
               result |-> column_color(call.arg[1], call.arg[2]) ]
  /\ UNCHANGED << log, clock, pc, monitoring_window, was_in_window,
                  last_saved_image, chart_file, emails, polls, iter, idle,
                  runs, pending, numeric_vars >>

NextLabel == LabelColumn

SpecLabel == InitLabel /\ [][NextLabel]_vars

\* ------------------------------------------------- the rightmost colour
\* The lists get_rightmost_column_color is called on: those of a region, and
\* the empty list.
RightmostInputs == Regions \cup { << >> }

\* A call of the classifier on a region, or of get_rightmost_column_color on
\* a list of labels, not yet made.
InitRightmost ==
  /\ MonitorAtRest
  /\ \/ \E column_colors \in ClassifierInputs :
          call = [ f |-> "detect_line_crossing", arg |-> column_colors,
                   done |-> FALSE ]
     \/ \E column_colors \in RightmostInputs :
          call = [ f |-> "get_rightmost_column_color", arg |-> column_colors,
                   done |-> FALSE ]

Rightmost ==
  /\ call.f = "get_rightmost_column_color"
  /\ ~call.done
  /\ call' = [ f |-> call.f, arg |-> call.arg, done |-> TRUE,
               result |-> get_rightmost_column_color(call.arg) ]
  /\ UNCHANGED << log, clock, pc, monitoring_window, was_in_window,
                  last_saved_image, chart_file, emails, polls, iter, idle,
                  runs, pending, numeric_vars >>

NextRightmost == Classify \/ Rightmost

SpecRightmost == InitRightmost /\ [][NextRightmost]_vars

\* ------------------------------------------------------ the analysed region
\* Image heights and widths: one pixel, and sizes at and around the default
\* bounds.
Around(v) == { v + d : d \in (0 - MaxBeyond)..MaxBeyond }
Heights == {1} \cup Around(DEFAULT_START_Y) \cup Around(DEFAULT_END_Y)
Widths  == {1} \cup Around(DEFAULT_START_X) \cup Around(DEFAULT_END_X)

\* The bounds a caller passes: none, a negative one, the first pixels, and
\* one beyond every image.
RequestedBounds ==
  { NoBound, << 0 - MaxBeyond >>, << 0 >>, << 1 >>,
    << DEFAULT_END_X + MaxBeyond + 1 >> }

\* A call of extract_middle_section on an image of positive height and
\* width, not yet made.
InitExtract ==
  /\ MonitorAtRest
  /\ \E height \in Heights, width \in Widths,
        start_x \in RequestedBounds, end_x \in RequestedBounds,
        start_y \in RequestedBounds, end_y \in RequestedBounds :
        call = [ f |-> "extract_middle_section",
                 arg |-> [ height |-> height, width |-> width,
                           start_x |-> start_x, end_x |-> end_x,
                           start_y |-> start_y, end_y |-> end_y ],
                 done |-> FALSE ]

Extract ==
  /\ call.f = "extract_middle_section"
  /\ ~call.done
  /\ call' = [ f |-> call.f, arg |-> call.arg, done |-> TRUE,
               result |-> extract_middle_section(
                            call.arg.height, call.arg.width,
                            call.arg.start_x, call.arg.end_x,
                            call.arg.start_y, call.arg.end_y) ]
  /\ UNCHANGED << log, clock, pc, monitoring_window, was_in_window,
                  last_saved_image, chart_file, emails, polls, iter, idle,
                  runs, pending, numeric_vars >>

NextExtract == Extract

SpecExtract == InitExtract /\ [][NextExtract]_vars

\* ------------------------------------------------- the image comparison
\* A call of images_are_different, not yet made: each image is there or None,
\* the shapes agree or not, and so many pixels differ.
InitCompare ==
  /\ MonitorAtRest
  /\ \E img1 \in {NoImage, 1}, img2 \in {NoImage, 2}, same_shape \in BOOLEAN,
        non_zero_count \in 0..(IMAGE_DIFF_THRESHOLD + MaxOver) :
        call = [ f |-> "images_are_different",
                 arg |-> [ img1 |-> img1, img2 |-> img2,
                           same_shape |-> same_shape,
                           non_zero_count |-> non_zero_count ],
                 done |-> FALSE ]

Compare ==
  /\ call.f = "images_are_different"
  /\ ~call.done
  /\ call' = [ f |-> call.f, arg |-> call.arg, done |-> TRUE,
               result |-> images_are_different(
                            call.arg.img1, call.arg.img2,
                            call.arg.same_shape, call.arg.non_zero_count) ]
  /\ UNCHANGED << log, clock, pc, monitoring_window, was_in_window,
                  last_saved_image, chart_file, emails, polls, iter, idle,
                  runs, pending, numeric_vars >>

NextCompare == Compare

SpecCompare == InitCompare /\ [][NextCompare]_vars

\* ------------------------------------------------------- the test harness
\* test_harness.py: TestHarness over the classes of the chart monitor, with
\* should_log_transition replaced and log_transition dated by the simulated
\* date.  log is the test log file, iter the number of image files taken.

\* _test_should_log_transition logging every crossing.
test_should_log_transition_always(current_crossing, lines) ==
  current_crossing # "no_crossing"

\* TestHarness._test_should_log_transition
test_should_log_transition(current_crossing, lines) ==
  IF current_crossing = "no_crossing" THEN FALSE
  ELSE get_last_logged_crossing(lines, TRUE) # current_crossing

\* TestHarness.__init__: the test log file is cleared.
InitHarness ==
  /\ MonitorAtRest
  /\ call = NoCall

\* TestHarness.process_image on an image that loads, whose region has the
\* labels column_colors, under the simulated date.
process_image(column_colors, simulated_date) ==
  /\ iter < MaxImages
  /\ iter' = iter + 1
  /\ LET crossing_result == detect_line_crossing(column_colors)
         rightmost_color == crossing_result.rightmost_color
         last_crossing   == get_last_logged_crossing(log, TRUE)
         last_color      == get_last_color(log, TRUE)
         manual          == manual_color_crossing(last_color, rightmost_color)
         effective       == effective_crossing(crossing_result.result, manual)
         logged          == /\ effective # "no_crossing"
                            /\ test_should_log_transition(effective, log)
         snapshot(lines) == log_transition(lines, simulated_date,
                                           CurrentColor, rightmost_color)
     IN  /\ log' = IF logged
                   THEN snapshot(log_transition(log, simulated_date,
                                                LineCrossing, effective))
                   ELSE IF effective # "no_crossing"
                   THEN IF effective = last_crossing
                        THEN snapshot(log) ELSE log
                   ELSE snapshot(log)
         /\ polls' = Append(polls,
                       [ current_crossing      |-> crossing_result.result,
                         rightmost_color       |-> rightmost_color,
                         last_crossing         |-> last_crossing,
                         last_color            |-> last_color,
                         manual_color_crossing |-> manual,
                         effective_crossing    |-> effective,
                         notify                |-> logged,
                         today                 |-> simulated_date,
                         first                 |-> Len(log),
                         last                  |-> Len(log') ])
  /\ last_saved_image' = iter'
  /\ UNCHANGED << clock, pc, monitoring_window, was_in_window, chart_file,
                  emails, idle, runs, pending, call, numeric_vars >>

\* TestHarness.process_image on a file that does not load: nothing is done.
process_image_not_loaded ==
  /\ iter < MaxImages
  /\ iter' = iter + 1
  /\ UNCHANGED << log, clock, pc, monitoring_window, was_in_window,
                  last_saved_image, chart_file, emails, polls, idle, runs,
                  pending, call, numeric_vars >>

\* A sequence of image files, each with a simulated date of its own.
NextHarness ==
  \/ \E column_colors \in Polled, simulated_date \in 1..MaxDay :
        process_image(column_colors, simulated_date)
  \/ process_image_not_loaded

SpecHarness == InitHarness /\ [][NextHarness]_vars

\* ------------------------------------------------------ the numeric monitor
\* crap_stock_monitor.py: the monitor of the NYSI value.  The colours it
\* stores and reports.
NysiColors == {"Black", "Red"}

\* determine_color's look back over equal latest values: the loop
\* "for i in range(len(nysi_values) - 2, 0, -1)" with i + 1 = j, stopping at
\* the pair whose later member is values[stop].
RECURSIVE look_back(_, _, _)
look_back(values, j, stop) ==
  IF j < stop THEN None
  ELSE IF values[j] # values[j - 1]
       THEN (IF values[j] > values[j - 1] THEN "Black" ELSE "Red")
       ELSE look_back(values, j - 1, stop)

\* determine_color with a look back that stops one pair early.
determine_color_short_look_back(nysi_values) ==
  IF Len(nysi_values) < 2 THEN None
  ELSE LET latest   == nysi_values[Len(nysi_values)]
           previous == nysi_values[Len(nysi_values) - 1]
       IN  IF latest > previous THEN "Black"
           ELSE IF latest < previous THEN "Red"
           ELSE look_back(nysi_values, Len(nysi_values) - 1, 3)

\* determine_color: nysi_values is the sequence of the values, oldest first.
determine_color(nysi_values) ==
  IF Len(nysi_values) < 2 THEN None
  ELSE LET latest   == nysi_values[Len(nysi_values)]
           previous == nysi_values[Len(nysi_values) - 1]
       IN  IF latest > previous THEN "Black"
           ELSE IF latest < previous THEN "Red"
           ELSE look_back(nysi_values, Len(nysi_values) - 1, 2)

\* --------------------------------------------------- determine_color alone
\* The sequences of values determine_color is called on.
ValueLists == UNION { [1..n -> 1..MaxValue] : n \in 0..MaxValues }

InitColor ==
  /\ MonitorAtRest
  /\ \E nysi_values \in ValueLists :
        call = [ f |-> "determine_color", arg |-> nysi_values,
                 done |-> FALSE ]

DetermineColor ==
  /\ call.f = "determine_color"
  /\ ~call.done
  /\ call' = [ f |-> call.f, arg |-> call.arg, done |-> TRUE,
               result |-> determine_color(call.arg) ]
  /\ UNCHANGED << log, clock, pc, monitoring_window, was_in_window,
                  last_saved_image, chart_file, emails, polls, iter, idle,
                  runs, pending, numeric_vars >>

NextColor == DetermineColor

SpecColor == InitColor /\ [][NextColor]_vars

\* ---------------------------------------------------- the state file
\* nysi_state.json is modelled by what the code reads of it: kind "missing"
\* (no file), "corrupt" (a file json.load rejects), "old" (the old format:
\* last_color, last_date, last_value and no history key) or "new" (the format
\* save_state writes: a history list, and the last_* keys).  An entry of the
\* history is [color, date, value]; its timestamp is written and never read.
\* last holds the last_* keys: no entry or one.
Entry(color, date, value) ==
  [ color |-> color, date |-> date, value |-> value ]

CorruptStateFile == [ kind |-> "corrupt", history |-> << >>, last |-> << >> ]

OldStateFile(entry) ==
  [ kind |-> "old", history |-> << >>, last |-> << entry >> ]

\* load_last_state: << >> for (None, None, None), or the entry returned.
\* max(state['history'], key=date) is the first entry of the greatest date.
load_last_state(file) ==
  IF file.kind \in {"missing", "corrupt"} THEN << >>
  ELSE IF file.history # << >>
       THEN LET history == file.history
                newest  == { i \in 1..Len(history) :
                               \A k \in 1..Len(history) :
                                  history[k].date <= history[i].date }
                first   == CHOOSE i \in newest : \A k \in newest : i <= k
            IN  << history[first] >>
       ELSE file.last

\* sorted(history, key=date, reverse=True): a stable sort, so entries of one
\* date keep the order they have in history.
sorted_newest_first(history) ==
  LET rank(i) ==
        Cardinality({ k \in 1..Len(history) :
                        history[k].date > history[i].date })
        + Cardinality({ k \in 1..(i - 1) :
                          history[k].date = history[i].date })
        + 1
  IN  [ p \in 1..Len(history) |->
          history[CHOOSE i \in 1..Len(history) : rank(i) = p] ]

\* The loop of _clean_history: the first entry met of each date.
RECURSIVE first_of_each_date(_, _)
first_of_each_date(entries, seen_dates) ==
  IF entries = << >> THEN << >>
  ELSE IF Head(entries).date \in seen_dates
       THEN first_of_each_date(Tail(entries), seen_dates)
       ELSE << Head(entries) >>
              \o first_of_each_date(Tail(entries),
                                    seen_dates \cup { Head(entries).date })

\* _clean_history that keeps every entry of the distinct dates.
clean_history_uncut(history) ==
  first_of_each_date(sorted_newest_first(history), {})

\* _clean_history.
clean_history(history) ==
  LET cleaned == first_of_each_date(sorted_newest_first(history), {})
  IN  SubSeq(cleaned, 1, Min({ Len(cleaned), HISTORY_LIMIT }))

\* The history save_state reads from the file before it appends.
existing_history(file) ==
  IF file.kind = "new" THEN file.history
  ELSE IF file.kind = "old" THEN file.last
  ELSE << >>

\* save_state: the file it leaves.  written is whether open(..., 'w') and
\* json.dump succeeded; an IOError there is caught and the file left as it
\* was.
save_state(file, color, date, value, written) ==
  LET new_entry == Entry(color, date, value)
      cleaned_history ==
        clean_history(Append(existing_history(file), new_entry))
  IN  IF written
      THEN [ kind |-> "new", history |-> cleaned_history,
             last |-> << new_entry >> ]
      ELSE file

\* The chart monitor's own state, which the numeric monitor never touches.
chart_vars == << log, last_saved_image, chart_file, idle, runs, pending >>

ChartMonitorAtRest ==
  /\ log = << >>
  /\ last_saved_image = NoImage
  /\ chart_file = NoFile
  /\ idle = 0
  /\ runs = 0
  /\ pending = [ m \in Monitors |-> << >> ]

\* The numeric monitor constructed and its loop not started.
NumericMonitorCreated ==
  /\ ChartMonitorAtRest
  /\ clock = 1
  /\ pc = "stopped"
  /\ monitoring_window = FALSE
  /\ was_in_window = FALSE
  /\ emails = << >>
  /\ polls = << >>
  /\ iter = 0
  /\ data_received_today = FALSE
  /\ last_check_date = << >>
  /\ time_of_day = 0

\* ------------------------------------------- save_state and load_last_state
\* The entries save_state is given.
Entries ==
  { Entry(color, date, value) :
      color \in NysiColors, date \in 1..MaxDate,
      value \in 1..MaxStoredValue }

\* The state files a call can find: none, an unreadable one, or one of the
\* old format.
InitialStateFiles ==
  { NoStateFile, CorruptStateFile } \cup { OldStateFile(e) : e \in Entries }

\* The dates saved in a file.
DatesOf(file) ==
  { existing_history(file)[i].date : i \in 1..Len(existing_history(file)) }

InitState ==
  /\ NumericMonitorCreated
  /\ call = NoCall
  /\ state_file \in InitialStateFiles
  /\ saved_dates = DatesOf(state_file)

\* A call of save_state on the state file.  saved_dates restarts when the
\* file found has no readable history.
save_state_call(color, date, value, written) ==
  /\ state_file' = save_state(state_file, color, date, value, written)
  /\ saved_dates' = IF written
                    THEN (IF state_file.kind \in {"old", "new"}
                          THEN saved_dates ELSE {}) \cup { date }
                    ELSE saved_dates
  /\ UNCHANGED << clock, pc, monitoring_window, was_in_window, emails, polls,
                  iter, data_received_today, last_check_date, time_of_day >>
  /\ UNCHANGED chart_vars

\* call records the arguments, the file found and whether the write
\* succeeded.
SaveState(color, date, value, written) ==
  /\ save_state_call(color, date, value, written)
  /\ call' = [ f |-> "save_state", arg |-> Entry(color, date, value),
               before |-> state_file, written |-> written ]

NextState ==
  \E e \in Entries, written \in BOOLEAN :
     SaveState(e.color, e.date, e.value, written)

SpecState == InitState /\ [][NextState]_vars

\* ------------------------------------------------- the history's length
\* Saves on more dates than the history keeps, in any order and any number
\* of times per date.  The entries differ by their dates only.
HistoryEntries ==
  { Entry("Black", date, 1) : date \in 1..(HISTORY_LIMIT + MaxExtraDates) }

InitHistory ==
  /\ NumericMonitorCreated
  /\ call = NoCall
  /\ state_file \in { NoStateFile, CorruptStateFile }
                      \cup { OldStateFile(e) : e \in HistoryEntries }
  /\ saved_dates = DatesOf(state_file)

SaveHistory(color, date, value, written) ==
  /\ save_state_call(color, date, value, written)
  /\ UNCHANGED call

NextHistory ==
  \E e \in HistoryEntries, written \in BOOLEAN :
     SaveHistory(e.color, e.date, e.value, written)

SpecHistory == InitHistory /\ [][NextHistory]_vars

\* ------------------------------------------------------------- check_once
\* The data get_nysi_data returns: a sequence of [date, value], oldest first.
\* None (the request failed) and the empty list are both << >>: every reader
\* tests "if not nysi_data".
Values(nysi_data) == [ i \in 1..Len(nysi_data) |-> nysi_data[i].value ]

\* _build_initial_history from its i-th entry on: the file it leaves.
RECURSIVE build_initial_history_from(_, _, _, _)
build_initial_history_from(file, historical_data, i, written) ==
  IF i > Len(historical_data) THEN file
  ELSE LET color == IF historical_data[i].value
                         > historical_data[i - 1].value
                    THEN "Black" ELSE "Red"
       IN  build_initial_history_from(
             save_state(file, color, historical_data[i].date,
                        historical_data[i].value, written),
             historical_data, i + 1, written)

\* _build_initial_history.
build_initial_history(file, historical_data, written) ==
  IF Len(historical_data) < 2 THEN file
  ELSE build_initial_history_from(file, historical_data, 2, written)

\* check_once on the state file found, with the data its fetch returns:
\* the file it leaves (after) and as _build_initial_history left it (built),
\* the colour it determined, the email it attempted (none or one) and what
\* it returns.  written is whether the state file can be written during the
\* call, email_sent what send_email returns.
check_once(file, nysi_data, written, email_sent) ==
  LET has_existing_state == file.kind # "missing"
      built == IF ~has_existing_state /\ Len(nysi_data) > 1
               THEN build_initial_history(file, nysi_data, written)
               ELSE file
      current_color == determine_color(Values(nysi_data))
      latest_data == nysi_data[Len(nysi_data)]
      last  == load_last_state(built)
      saved == save_state(built, current_color, latest_data.date,
                          latest_data.value, written)
  IN  IF nysi_data = << >>
      THEN [ built |-> file, after |-> file, color |-> None,
             emails |-> << >>, result |-> FALSE ]
      ELSE IF current_color = None
      THEN [ built |-> built, after |-> built, color |-> None,
             emails |-> << >>, result |-> FALSE ]
      ELSE IF last # << >> /\ current_color # last[1].color
      THEN [ built |-> built, after |-> saved, color |-> current_color,
             emails |-> << [ old_color |-> last[1].color,
                             new_color |-> current_color,
                             value |-> latest_data.value,
                             date |-> latest_data.date,
                             sent |-> email_sent ] >>,
             result |-> TRUE ]
      ELSE [ built |-> built, after |-> saved, color |-> current_color,
             emails |-> << >>, result |-> TRUE ]

\* The data a fetch can return: nothing, or up to MaxData consecutive days
\* of the dates 1..MaxDate.
DaysEnding(latest, n) ==
  { [ i \in 1..n |-> [ date |-> latest - n + i, value |-> values[i] ] ] :
      values \in [1..n -> 1..MaxStoredValue] }

DataLists ==
  { << >> } \cup
  UNION { UNION { DaysEnding(latest, n) : latest \in n..MaxDate } :
          n \in 1..MaxData }

InitCheck ==
  /\ NumericMonitorCreated
  /\ call = NoCall
  /\ state_file \in InitialStateFiles
  /\ saved_dates = DatesOf(state_file)

\* The dates check_once passes to a save_state that writes: those of the
\* initial history, and the latest when a colour is determined.
SavedBy(file, nysi_data, color, written) ==
  IF ~written THEN {}
  ELSE (IF file.kind = "missing" /\ Len(nysi_data) > 1
        THEN { nysi_data[i].date : i \in 2..Len(nysi_data) } ELSE {})
       \cup (IF color # None THEN { nysi_data[Len(nysi_data)].date } ELSE {})

\* A call of check_once.  polls records it: the data fetched, the file found
\* and what check_once did.
CheckOnce(nysi_data, written, email_sent) ==
  /\ Len(polls) < MaxChecks
  /\ LET done == check_once(state_file, nysi_data, written, email_sent)
     IN  /\ state_file' = done.after
         /\ emails' = emails \o done.emails
         /\ polls' = Append(polls,
                            done @@ [ data |-> nysi_data,
                                      before |-> state_file,
                                      written |-> written ])
         /\ saved_dates' =
              LET dates == SavedBy(state_file, nysi_data, done.color, written)
              IN  IF dates = {} THEN saved_dates
                  ELSE (IF state_file.kind \in {"old", "new"}
                        THEN saved_dates ELSE {}) \cup dates
  /\ UNCHANGED << clock, pc, monitoring_window, was_in_window, iter, call,
                  data_received_today, last_check_date, time_of_day >>
  /\ UNCHANGED chart_vars

NextCheck ==
  \E nysi_data \in DataLists, written \in BOOLEAN, email_sent \in BOOLEAN :
     CheckOnce(nysi_data, written, email_sent)

SpecCheck == InitCheck /\ [][NextCheck]_vars

\* ------------------------------------------------------ the numeric loop
\* The time of day is one of the slots 0..MaxSlot; a monitoring window is a
\* pair of slots (start_time, end_time), and << >> is no window.
Slots == 0..MaxSlot

NoWindow == << >>

\* No window, a window within the day, and a window crossing midnight.
Windows == { NoWindow, << 1, 2 >>, << MaxSlot, 0 >> }

\* is_within_monitoring_window at time now.
is_within_monitoring_window(window, now) ==
  IF window = NoWindow THEN TRUE
  ELSE LET start_time == window[1]
           end_time   == window[2]
       IN  IF start_time <= end_time
           THEN start_time <= now /\ now <= end_time
           ELSE now >= start_time \/ now <= end_time

\* calculate_time_until_next_window at time current_time, in slots.
calculate_time_until_next_window(window, current_time) ==
  IF window = NoWindow THEN 0
  ELSE LET start_time == window[1]
           end_time   == window[2]
           window_start_today    == start_time - current_time
           window_start_tomorrow == start_time + (MaxSlot + 1) - current_time
       IN  IF start_time <= end_time
           THEN (IF current_time < start_time
                 THEN window_start_today ELSE window_start_tomorrow)
           ELSE (IF current_time >= start_time THEN window_start_tomorrow
                 ELSE window_start_today)

\* has_received_data_today, with today the date date.today() returns.
has_received_data_today(nysi_data, today) ==
  IF nysi_data = << >> THEN FALSE
  ELSE nysi_data[Len(nysi_data)].date = today

\* The data the fetches of the loop return: nothing, or two days of data,
\* rising or falling.
LoopData ==
  { << >> } \cup
  { << [ date |-> latest - 1, value |-> values[1] ],
       [ date |-> latest, value |-> values[2] ] >> :
      latest \in 2..MaxDate, values \in { << 1, 2 >>, << 2, 1 >> } }

InitLoop ==
  /\ ChartMonitorAtRest
  /\ clock = 1
  /\ time_of_day \in Slots
  /\ pc = "stopped"
  /\ monitoring_window = NoWindow
  /\ was_in_window = FALSE
  /\ emails = << >>
  /\ polls = << >>
  /\ iter = 0
  /\ data_received_today = FALSE
  /\ last_check_date = << >>
  /\ call = NoCall
  /\ state_file \in { NoStateFile, CorruptStateFile }
  /\ saved_dates = {}

\* A call of check_once by monitor.  polls records who called it (by), in
\* which iteration and on which calendar date.
LoopCheck(by, day, nysi_data, written, email_sent) ==
  LET done == check_once(state_file, nysi_data, written, email_sent)
  IN  /\ state_file' = done.after
      /\ emails' = emails \o done.emails
      /\ polls' = Append(polls, [ by |-> by, iter |-> iter', day |-> day,
                                  result |-> done.result ])
      /\ saved_dates' =
           LET dates == SavedBy(state_file, nysi_data, done.color, written)
           IN  IF dates = {} THEN saved_dates
               ELSE (IF state_file.kind \in {"old", "new"}
                     THEN saved_dates ELSE {}) \cup dates

NoLoopCheck == UNCHANGED << state_file, emails, polls, saved_dates >>

\* monitor up to its loop: the initial check_once when there is no state
\* file.
StartMonitor(window, nysi_data, written, email_sent) ==
  /\ pc = "stopped"
  /\ pc' = "running"
  /\ monitoring_window' = window
  /\ iter' = iter
  /\ IF state_file.kind = "missing"
     THEN LoopCheck("initial", clock, nysi_data, written, email_sent)
     ELSE NoLoopCheck
  /\ was_in_window' = FALSE
  /\ data_received_today' = FALSE
  /\ UNCHANGED << clock, time_of_day, last_check_date, call >>
  /\ UNCHANGED chart_vars

\* time.sleep: the loop goes on lapse slots later.
Sleep(from_day, from_time, lapse) ==
  /\ clock' = from_day + ((from_time + lapse) \div (MaxSlot + 1))
  /\ time_of_day' = (from_time + lapse) % (MaxSlot + 1)
  /\ clock' <= MaxDate

\* A call of check_once by the loop: its own fetch returns any data, the
\* state file can be written or not, the email is delivered or not.
LoopCheckBy(by, day) ==
  \E check_data \in LoopData, written \in BOOLEAN, email_sent \in BOOLEAN :
     LoopCheck(by, day, check_data, written, email_sent)

\* time.sleep(check_interval): no slot or one slot passes.
SleepInterval(from_day, from_time) ==
  \E interval \in 0..1 : Sleep(from_day, from_time, interval)

\* One iteration of the loop of monitor, to the end of its sleep.  In the
\* first branch get_nysi_data returns any data, and midnight may pass while
\* it fetches: has_received_data_today then reads the date of the next day.
Iterate ==
  /\ pc = "running"
  /\ iter < MaxIterations
  /\ iter' = iter + 1
  /\ LET start_end == monitoring_window
         in_window == is_within_monitoring_window(start_end, time_of_day)
         current_date == clock
         received == IF last_check_date # << >>
                        /\ last_check_date[1] # current_date
                     THEN FALSE ELSE data_received_today
         wait_seconds ==
           calculate_time_until_next_window(start_end, time_of_day)
     IN  /\ last_check_date' = << current_date >>
         /\ was_in_window' = in_window
         /\ IF in_window /\ ~received
            THEN
              \E nysi_data \in LoopData, midnight \in BOOLEAN :
                 LET today == IF midnight THEN clock + 1 ELSE clock
                     now   == IF midnight THEN 0 ELSE time_of_day
                 IN  /\ midnight => (time_of_day = MaxSlot /\ clock < MaxDate)
                     /\ IF has_received_data_today(nysi_data, today)
                        THEN /\ LoopCheckBy("today", today)
                             /\ data_received_today' = TRUE
                        ELSE /\ NoLoopCheck
                             /\ data_received_today' = received
                     /\ SleepInterval(today, now)
            ELSE IF in_window /\ received
            THEN
              /\ NoLoopCheck
              /\ data_received_today' = received
              /\ IF wait_seconds > 0
                 THEN Sleep(clock, time_of_day, wait_seconds)
                 ELSE SleepInterval(clock, time_of_day)
            ELSE IF ~in_window /\ monitoring_window # NoWindow
            THEN
              /\ NoLoopCheck
              /\ data_received_today' = received
              /\ IF wait_seconds > 0
                 THEN Sleep(clock, time_of_day, wait_seconds)
                 ELSE SleepInterval(clock, time_of_day)
            ELSE
              /\ LoopCheckBy("normal", clock)
              /\ data_received_today' = received
              /\ SleepInterval(clock, time_of_day)
  /\ UNCHANGED << pc, monitoring_window, call >>
  /\ UNCHANGED chart_vars

NextLoop ==
  \/ \E window \in Windows, nysi_data \in LoopData, written \in BOOLEAN,
        email_sent \in BOOLEAN :
        StartMonitor(window, nysi_data, written, email_sent)
  \/ Iterate

SpecLoop == InitLoop /\ [][NextLoop]_vars

\* ======================================================================
\* Properties
\* ======================================================================
\* The log as decision p found it, and the lines p wrote.
History(p) == SubSeq(log, 1, p.first)
Written(p) == SubSeq(log, p.first + 1, p.last)

\* The kind of the newest crossing event of a history h.
RECURSIVE LastKind(_)
LastKind(h) ==
  IF h = << >> THEN "no_crossing"
  ELSE IF h[Len(h)].msg = LineCrossing THEN h[Len(h)].arg
  ELSE LastKind(SubSeq(h, 1, Len(h) - 1))

\* The colour of the newest colour-carrying line of a history h.
RECURSIVE LastColor(_)
LastColor(h) ==
  IF h = << >> THEN None
  ELSE IF h[Len(h)].msg = CurrentColor /\ h[Len(h)].arg \in Colors
       THEN h[Len(h)].arg
  ELSE LastColor(SubSeq(h, 1, Len(h) - 1))

\* h holds a crossing event of kind k dated day.
EventOn(h, k, day) == \E i \in 1..Len(h) : h[i] = Line(day, LineCrossing, k)

\* Decision p emitted a notifying crossing event of kind k: the line is the
\* first it wrote, and send_email_notification was called for that line.
Emitted(p, k) ==
  /\ p.notify
  /\ p.last > p.first
  /\ log[p.first + 1].msg = LineCrossing
  /\ log[p.first + 1].arg = k
  /\ \E e \in 1..Len(emails) :
        emails[e].line = p.first + 1 /\ emails[e].crossing_type = k

\* Decision p wrote one colour snapshot for its rightmost colour and nothing
\* else, and no notification went out for it.
SnapshotOnly(p) ==
  /\ Written(p) = << Line(log[p.last].day, CurrentColor, p.rightmost_color) >>
  /\ \A e \in 1..Len(emails) : emails[e].line \notin (p.first + 1)..p.last

\* C1 as stated: for each calendar day and each crossing kind, at most one
\* "Line crossing detected: <kind>" line carries that day's date.
C1_OncePerKindPerDay ==
  \A i, j \in 1..Len(log) :
     ( /\ i < j
       /\ log[i].msg = LineCrossing /\ log[j].msg = LineCrossing
       /\ log[i].arg = log[j].arg /\ log[i].day = log[j].day ) => FALSE

\* C1 as amended: two "Line crossing detected" lines of one kind carry the same
\* date only if a crossing line of the other kind lies between them.
C1_OncePerKindPerDayBetweenOtherKind ==
  \A i, j \in 1..Len(log) :
     ( /\ i < j
       /\ log[i].msg = LineCrossing /\ log[j].msg = LineCrossing
       /\ log[i].arg = log[j].arg /\ log[i].day = log[j].day )
     => \E k \in (i + 1)..(j - 1) :
           log[k].msg = LineCrossing /\ log[k].arg # log[i].arg

C1_Witness ==
  \E i, j \in 1..Len(log) :
     /\ i < j
     /\ log[i].msg = LineCrossing /\ log[j].msg = LineCrossing
     /\ log[i].arg = log[j].arg /\ log[i].day = log[j].day

\* C2: a decision on an effective crossing other than no_crossing notifies
\* iff that crossing differs from the kind of the newest crossing event of the
\* history or the history holds no crossing event of that kind dated today.
C2_NotifyIff ==
  \A n \in 1..Len(polls) :
     LET p == polls[n]
     IN  p.effective_crossing # "no_crossing"
         => ( p.notify <=>
              \/ p.effective_crossing # LastKind(History(p))
              \/ ~EventOn(History(p), p.effective_crossing, p.today) )

\* A repeat of the newest crossing kind, already logged today, is suppressed;
\* and one logged on an earlier day only is notified.
C2_Witness ==
  /\ \E n \in 1..Len(polls) :
        /\ polls[n].effective_crossing \in Crossings
        /\ polls[n].effective_crossing = LastKind(History(polls[n]))
        /\ ~polls[n].notify
  /\ \E n \in 1..Len(polls) :
        /\ polls[n].effective_crossing \in Crossings
        /\ polls[n].effective_crossing = LastKind(History(polls[n]))
        /\ polls[n].notify

\* The kind the colour change from a to b stands for.
Inferred(a, b) ==
  IF a = "red" /\ b = "black" THEN "red_to_black"
  ELSE IF a = "black" /\ b = "red" THEN "black_to_red"
  ELSE "no_crossing"

\* Decision p found a known last colour, the classifier returned no_crossing
\* and the rightmost colour of the image differs from that last colour.
ColourChanged(p) ==
  /\ LastColor(History(p)) \in Colors
  /\ p.current_crossing = "no_crossing"
  /\ p.rightmost_color # LastColor(History(p))

\* C3 as stated: whenever the classifier returns no_crossing for an image
\* whose rightmost colour differs from the known last logged colour, the
\* decision emits a notifying crossing event of the inferred kind.
C3_ManualInferenceNotifies ==
  \A n \in 1..Len(polls) :
     LET p == polls[n]
     IN  ColourChanged(p)
         => Emitted(p, Inferred(LastColor(History(p)), p.rightmost_color))

\* C3 as amended: when moreover the rightmost colour is red or black, the
\* effective crossing is the inferred kind, and the decision emits a notifying
\* crossing event of that kind unless that kind is the newest crossing event of
\* the history and the history holds a crossing event of that kind dated
\* today, in which case it writes a colour snapshot only.
C3_ManualInferenceKnownColour ==
  \A n \in 1..Len(polls) :
     LET p == polls[n]
         k == Inferred(LastColor(History(p)), p.rightmost_color)
     IN  (ColourChanged(p) /\ p.rightmost_color \in Colors)
         => /\ k \in Crossings
            /\ p.effective_crossing = k
            /\ IF k = LastKind(History(p)) /\ EventOn(History(p), k, p.today)
               THEN SnapshotOnly(p)
               ELSE Emitted(p, k)

\* A colour change the classifier missed was notified, and another one was
\* suppressed.
C3_Witness ==
  /\ \E n \in 1..Len(polls) :
        /\ ColourChanged(polls[n]) /\ polls[n].rightmost_color \in Colors
        /\ polls[n].notify
  /\ \E n \in 1..Len(polls) :
        /\ ColourChanged(polls[n]) /\ polls[n].rightmost_color \in Colors
        /\ ~polls[n].notify

\* C4: of two successive decisions made on the same calendar day on the same
\* (crossing result, rightmost colour), the second found the entries of the
\* first in the history; it emits no notifying crossing event and writes at
\* most one colour snapshot.
C4_RepeatedDecisionSnapshotAtMost ==
  \A n \in 1..(Len(polls) - 1) :
     LET p == polls[n]
         q == polls[n + 1]
     IN  ( /\ p.today = q.today
           /\ p.current_crossing = q.current_crossing
           /\ p.rightmost_color = q.rightmost_color )
         => /\ ~q.notify
            /\ \A i \in (q.first + 1)..q.last : log[i].msg # LineCrossing
            /\ \A e \in 1..Len(emails) : emails[e].line \notin (q.first + 1)..q.last
            /\ \/ Written(q) = << >>
               \/ SnapshotOnly(q)

\* The first of the two decisions notified a crossing.
C4_Witness ==
  \E n \in 1..(Len(polls) - 1) :
     /\ polls[n].today = polls[n + 1].today
     /\ polls[n].current_crossing = polls[n + 1].current_crossing
     /\ polls[n].rightmost_color = polls[n + 1].rightmost_color
     /\ polls[n].current_crossing \in Crossings
     /\ Emitted(polls[n], polls[n].current_crossing)
     /\ SnapshotOnly(polls[n + 1])

\* The newest crossing event of decision p's history is of kind k and is dated
\* the day before p's today.
LoggedYesterday(p, k) ==
  LET h == History(p)
      events == { i \in 1..Len(h) : h[i].msg = LineCrossing }
  IN  /\ events # {}
      /\ h[Max(events)].arg = k
      /\ h[Max(events)].day + 1 = p.today

\* C5: a decision whose effective crossing is K, made the day after the
\* newest crossing event of the history, itself of kind K, was logged, emits a
\* new notifying crossing event of kind K.
C5_NextDayNotifiesAgain ==
  \A n \in 1..Len(polls) :
     LET p == polls[n]
     IN  (p.effective_crossing \in Crossings
          /\ LoggedYesterday(p, p.effective_crossing))
         => Emitted(p, p.effective_crossing)

C5_Witness ==
  \E n \in 1..Len(polls) :
     /\ polls[n].effective_crossing \in Crossings
     /\ LoggedYesterday(polls[n], polls[n].effective_crossing)
     /\ Emitted(polls[n], polls[n].effective_crossing)
     /\ \E e \in 1..Len(emails) :
           /\ emails[e].line < polls[n].first
           /\ emails[e].crossing_type = polls[n].effective_crossing

\* The classifier's verdict of decision p is that of the region column_colors.
Classified(p, column_colors) ==
  /\ p.current_crossing = detect_line_crossing(column_colors).result
  /\ p.rightmost_color = detect_line_crossing(column_colors).rightmost_color

\* C6: [red,red,red,black,black] classifies as red_to_black with rightmost
\* black and its one transition at index 3, and [black x5] as no_crossing with
\* rightmost black; the first decision of a history, on the former, emits a
\* notifying red_to_black crossing; a second decision the same day, on the
\* latter, writes the colour snapshot black only and notifies nobody.
C6_Scenario ==
  /\ detect_line_crossing(RedThenBlack)
       = [ result |-> "red_to_black", rightmost_color |-> "black",
           red_to_black |-> << 3 >>, black_to_red |-> << >> ]
  /\ detect_line_crossing(AllBlack)
       = [ result |-> "no_crossing", rightmost_color |-> "black",
           red_to_black |-> << >>, black_to_red |-> << >> ]
  /\ (Len(polls) >= 1 /\ Classified(polls[1], RedThenBlack))
     => /\ Emitted(polls[1], "red_to_black")
        /\ ( /\ Len(polls) >= 2
             /\ Classified(polls[2], AllBlack)
             /\ polls[2].today = polls[1].today )
           => /\ ~polls[2].notify
              /\ SnapshotOnly(polls[2])
              /\ log[polls[2].last].arg = "black"

C6_Witness ==
  /\ Len(polls) >= 2
  /\ Classified(polls[1], RedThenBlack)
  /\ Classified(polls[2], AllBlack)
  /\ polls[2].today = polls[1].today
  /\ Emitted(polls[1], "red_to_black")
  /\ SnapshotOnly(polls[2])

\* No read of the log file that decision p made succeeded.
Unreadable(p) == \A r \in DOMAIN p.reads : p.reads[r] # "ok"

\* C7: a decision none of whose reads of the history succeeds takes the last
\* crossing for no_crossing and the last colour for absent; it completes, and
\* emits a notifying crossing event when the classifier's result is a crossing
\* and a colour snapshot only when it is no_crossing.
C7_UnreadableHistoryIsEmpty ==
  \A n \in 1..Len(polls) :
     LET p == polls[n]
     IN  Unreadable(p)
         => /\ p.last_crossing = "no_crossing"
            /\ p.last_color = None
            /\ p.effective_crossing = p.current_crossing
            /\ p.last > p.first
            /\ p.current_crossing \in Crossings
                 => Emitted(p, p.current_crossing)
            /\ p.current_crossing = "no_crossing"
                 => (~p.notify /\ SnapshotOnly(p))

\* The history held a crossing event of the same kind dated today, which a
\* readable history would have suppressed.
C7_Witness ==
  \E n \in 1..Len(polls) :
     /\ Unreadable(polls[n])
     /\ polls[n].current_crossing \in Crossings
     /\ LastKind(History(polls[n])) = polls[n].current_crossing
     /\ EventOn(History(polls[n]), polls[n].current_crossing, polls[n].today)
     /\ Emitted(polls[n], polls[n].current_crossing)

\* C8: every call of send_email_notification is for a "Line crossing detected"
\* line of its crossing kind, written by the decision of the same loop
\* iteration, and for no other line; every such line has exactly one call; the
\* lines an email leaves follow the crossing line directly.
C8_EmailOnlyOnCrossing ==
  /\ \A e \in 1..Len(emails) :
        /\ emails[e].line \in 1..Len(log)
        /\ log[emails[e].line].msg = LineCrossing
        /\ log[emails[e].line].arg = emails[e].crossing_type
        /\ \E n \in 1..Len(polls) :
              /\ emails[e].line = polls[n].first + 1
              /\ polls[n].notify
        /\ \A f \in 1..Len(emails) : emails[f].line = emails[e].line => f = e
  /\ \A i \in 1..Len(log) :
        /\ log[i].msg = LineCrossing
             => \E e \in 1..Len(emails) : emails[e].line = i
        /\ log[i].msg \in {EmailSent, EmailError}
             => (i > 1 /\ log[i - 1].msg = LineCrossing)

\* An email went out and one failed, in a log that also has colour snapshots,
\* an unchanged image or a failed download, and a stop of the monitor.
C8_Witness ==
  /\ \E e \in 1..Len(emails) : emails[e].outcome = "sent"
  /\ \E e \in 1..Len(emails) : emails[e].outcome = "error"
  /\ \E i \in 1..Len(log) : log[i].msg = CurrentColor
  /\ \E i \in 1..Len(log) : log[i].msg \in {Unchanged, DownloadFailed, Exiting}
  /\ \E i \in 1..Len(log) : log[i].msg = Stopped

\* C9: a decision whose effective crossing is no_crossing writes exactly one
\* colour snapshot, for the rightmost colour, no crossing event, and notifies
\* nobody; no "Line crossing detected" line is of kind no_crossing.
C9_NoCrossingSnapshotOnly ==
  /\ \A n \in 1..Len(polls) :
        polls[n].effective_crossing = "no_crossing"
        => (~polls[n].notify /\ SnapshotOnly(polls[n]))
  /\ \A i \in 1..Len(log) :
        log[i].msg = LineCrossing => log[i].arg \in Crossings

\* A no_crossing decision after a crossing was logged, with an unknown
\* rightmost colour.
C9_Witness ==
  \E n \in 1..Len(polls) :
     /\ polls[n].effective_crossing = "no_crossing"
     /\ polls[n].rightmost_color = "unknown"
     /\ LastKind(History(polls[n])) \in Crossings
     /\ SnapshotOnly(polls[n])

\* C10: a decision whose effective crossing is a crossing and which does not
\* notify writes a colour snapshot for the rightmost colour; every decision on
\* a new image writes at least one "Current line color" line.
C10_SnapshotOnEveryDecision ==
  \A n \in 1..Len(polls) :
     LET p == polls[n]
     IN  /\ (p.effective_crossing \in Crossings /\ ~p.notify) => SnapshotOnly(p)
         /\ \E i \in (p.first + 1)..p.last :
               log[i] = Line(log[i].day, CurrentColor, p.rightmost_color)

\* C11: every "Line crossing detected" line is the first line of a notifying
\* decision; the last line of that decision is the colour snapshot of its
\* rightmost colour, no email was attempted for the snapshot, and only the
\* line an email leaves lies between the two.
C11_CrossingThenSnapshot ==
  \A i \in 1..Len(log) :
     log[i].msg = LineCrossing
     => \E n \in 1..Len(polls) :
           LET p == polls[n]
           IN  /\ p.notify
               /\ i = p.first + 1
               /\ log[i].arg = p.effective_crossing
               /\ p.last > i
               /\ log[p.last].msg = CurrentColor
               /\ log[p.last].arg = p.rightmost_color
               /\ \A j \in (i + 1)..(p.last - 1) :
                     log[j].msg \in {EmailSent, EmailError}
               /\ \A e \in 1..Len(emails) : emails[e].line # p.last

\* Two notifying decisions, the first with an email line between its crossing
\* and its snapshot, the second without.
C11_Witness ==
  \E n, m \in 1..Len(polls) :
     /\ n < m
     /\ polls[n].notify /\ polls[m].notify
     /\ polls[n].last = polls[n].first + 3
     /\ polls[m].last = polls[m].first + 2
     /\ log[polls[m].last].msg = CurrentColor

\* C12: every step of the monitor leaves the log it found as a prefix of the
\* log it leaves: lines are appended, none is changed or removed.
C12_AppendOnly ==
  [][ /\ Len(log') >= Len(log)
      /\ SubSeq(log', 1, Len(log)) = log ]_vars

\* A log written by two runs of the monitor, with a stop, a window entry and a
\* failed email.
C12_Witness ==
  /\ runs = 2
  /\ \E i \in 1..Len(log) : log[i].msg = Stopped
  /\ \E i \in 1..Len(log) : log[i].msg = Entering
  /\ \E i \in 1..Len(log) : log[i].msg = EmailError

\* C13: when the delivery of a notification fails, the crossing line it was
\* for is still in the log, an "EMAIL ERROR" line follows it, and the colour
\* snapshot of the same decision follows that: the decision completed.
C13_FailedDeliveryKeepsEntries ==
  \A e \in 1..Len(emails) :
     emails[e].outcome = "error"
     => /\ emails[e].line + 2 <= Len(log)
        /\ log[emails[e].line].msg = LineCrossing
        /\ log[emails[e].line].arg = emails[e].crossing_type
        /\ log[emails[e].line + 1].msg = EmailError
        /\ \E n \in 1..Len(polls) :
              /\ polls[n].first + 1 = emails[e].line
              /\ polls[n].last = emails[e].line + 2
              /\ log[polls[n].last].msg = CurrentColor
              /\ log[polls[n].last].arg = polls[n].rightmost_color

\* A failed delivery, and a later decision that found its crossing line in
\* the history and did not notify again.
C13_Witness ==
  \E e \in 1..Len(emails), n \in 1..Len(polls) :
     /\ emails[e].outcome = "error"
     /\ polls[n].first > emails[e].line
     /\ polls[n].effective_crossing = emails[e].crossing_type
     /\ ~polls[n].notify

\* C14: whatever fails during it, a loop iteration leaves the monitor in its
\* loop, ready for the next poll.
C14_LoopSurvivesFailures ==
  [][ (pc = "running" /\ iter' = iter + 1) => pc' = "running" ]_vars

\* The part of C14 that holds: an iteration whose appends succeed leaves the
\* monitor in its loop, whether the download, the reads of the log file or the
\* email delivery fail.
C14_LoopSurvivesOtherFailures ==
  [][ (pc = "running" /\ iter' = iter + 1 /\ Len(log') > Len(log)
         /\ log'[Len(log')].msg # MonitoringError)
      => pc' = "running" ]_vars

\* The entries of a history that carry a crossing event or a colour.
Essential(h) == SelectSeq(h, LAMBDA l : l.msg \in {LineCrossing, CurrentColor})

\* What decision p read and decided is what the crossing and colour entries
\* of its history, its effective crossing and its date give.
DecidedFromEssential(p) ==
  LET h == Essential(History(p))
  IN  /\ p.last_crossing = get_last_logged_crossing(h, TRUE)
      /\ p.last_color = get_last_color(h, TRUE)
      /\ p.notify = ( /\ p.effective_crossing # "no_crossing"
                      /\ should_log_transition(p.effective_crossing, h,
                                               p.today, AllReadable) )

\* A stop or a start of the process leaves the crossing and colour entries of
\* the history, and the image the next download is compared with, as they
\* were.
RestartKeepsInputs ==
  (pc' # pc)
  => /\ Essential(log') = Essential(log)
     /\ last_saved_image' = last_saved_image

\* C15: every decision depends on the classifier's result, the crossing and
\* colour entries of the persisted history and the date only, and a restart
\* of the process between two polls changes none of what the next poll
\* depends on: the polls after it notify and log as they would have without
\* it.
C15_RestartInvariant ==
  /\ [](\A n \in 1..Len(polls) : DecidedFromEssential(polls[n]))
  /\ [][RestartKeepsInputs]_vars

\* Decisions n and m > n, written in this order, both emitted a crossing event
\* of the same kind with the same date, and no crossing event of the other kind
\* was written between the two.
NotifiedTwice(n, m) ==
  LET p == polls[n]
      q == polls[m]
  IN  /\ n < m
      /\ p.notify /\ q.notify
      /\ p.effective_crossing = q.effective_crossing
      /\ log[p.first + 1].msg = LineCrossing
      /\ log[q.first + 1].msg = LineCrossing
      /\ log[p.first + 1].day = log[q.first + 1].day
      /\ \A i \in (p.first + 2)..q.first : log[i].msg # LineCrossing

\* C16: with two processes on one history, two decisions notify the same
\* crossing kind on the same day (without the other kind between them) only
\* when their decide-then-append cycles overlap: the later writer read the
\* history before the earlier one had appended.  Cycles that are serialized
\* yield one notification.
C16_SerializedCyclesNotifyOnce ==
  \A n, m \in 1..Len(polls) :
     NotifiedTwice(n, m) => polls[m].read_at < polls[n].last

\* Both processes notified the same kind on the same day.
C16_Witness ==
  \E n, m \in 1..Len(polls) :
     /\ NotifiedTwice(n, m)
     /\ polls[m].read_at < polls[n].last
     /\ \E e, f \in 1..Len(emails) :
           /\ emails[e].line = polls[n].first + 1
           /\ emails[f].line = polls[m].first + 1

\* C17: the effective crossing of a decision is the classifier's result
\* whenever that is a crossing, whatever the last colour of the history is;
\* the inferred crossing is taken only when the classifier's result is
\* no_crossing.
C17_DetectedCrossingWins ==
  \A n \in 1..Len(polls) :
     LET p == polls[n]
     IN  /\ p.current_crossing \in Crossings
            => p.effective_crossing = p.current_crossing
         /\ p.current_crossing = "no_crossing"
            => p.effective_crossing
                 = Inferred(LastColor(History(p)), p.rightmost_color)

\* The classifier found one kind while the colour history suggested the
\* other.
C17_Witness ==
  \E n \in 1..Len(polls) :
     LET p == polls[n]
     IN  /\ p.current_crossing \in Crossings
         /\ Inferred(LastColor(History(p)), p.rightmost_color) \in Crossings
         /\ Inferred(LastColor(History(p)), p.rightmost_color)
              # p.current_crossing
         /\ p.effective_crossing = p.current_crossing

\* C18: the inferred crossing of a decision is red_to_black exactly when the
\* last logged colour is red and the rightmost colour black, black_to_red
\* exactly when the last logged colour is black and the rightmost colour red,
\* and no_crossing otherwise.
C18_InferredCrossing ==
  \A n \in 1..Len(polls) :
     LET p    == polls[n]
         last == LastColor(History(p))
     IN  /\ p.manual_color_crossing = "red_to_black"
            <=> (last = "red" /\ p.rightmost_color = "black")
         /\ p.manual_color_crossing = "black_to_red"
            <=> (last = "black" /\ p.rightmost_color = "red")
         /\ p.manual_color_crossing \in Crossings \cup {"no_crossing"}

\* Decisions with no prior colour, with an unknown rightmost colour after a
\* known one, and with an inferred crossing.
C18_Witness ==
  /\ \E n \in 1..Len(polls) :
        /\ LastColor(History(polls[n])) = None
        /\ polls[n].manual_color_crossing = "no_crossing"
  /\ \E n \in 1..Len(polls) :
        /\ LastColor(History(polls[n])) \in Colors
        /\ polls[n].rightmost_color = "unknown"
        /\ polls[n].manual_color_crossing = "no_crossing"
  /\ \E n \in 1..Len(polls) :
        polls[n].manual_color_crossing \in Crossings

\* detect_line_crossing has been called on column_colors.
Classifies(column_colors) ==
  /\ call.f = "detect_line_crossing"
  /\ call.done
  /\ call.arg = column_colors

\* C19: on a label sequence that lacks a red label or lacks a black label,
\* unknown labels mixed in or not, the classifier returns no_crossing and two
\* empty transition lists.
C19_OneColourNoCrossing ==
  \A column_colors \in ClassifierInputs :
     ( /\ Classifies(column_colors)
       /\ \/ \A i \in 1..Len(column_colors) : column_colors[i] # "red"
          \/ \A i \in 1..Len(column_colors) : column_colors[i] # "black" )
     => /\ call.result.result = "no_crossing"
        /\ call.result.red_to_black = << >>
        /\ call.result.black_to_red = << >>

\* Red columns with an unknown column among them, and no black one.
C19_Witness ==
  /\ Classifies(<<"red", "unknown", "red", "red">>)
  /\ call.result.result = "no_crossing"

\* C20: a region of k > 0 black columns followed by m > 0 red columns
\* classifies as black_to_red, with one transition, at index k, and rightmost
\* colour red.
C20_BlackThenRed ==
  \A k \in 1..MaxRun, m \in 1..MaxRun :
     Classifies(BlackThenRed(k, m))
     => call.result = [ result          |-> "black_to_red",
                        rightmost_color |-> "red",
                        red_to_black    |-> << >>,
                        black_to_red    |-> << k >> ]

C20_Witness ==
  /\ Classifies(BlackThenRed(MaxRun, MaxRun - 1))
  /\ call.result.black_to_red = << MaxRun >>

\* The number of places where a column labelled a is directly followed by a
\* column labelled b.
Adjacent(column_colors, a, b) ==
  Cardinality({ i \in 1..(Len(column_colors) - 1) :
                  column_colors[i] = a /\ column_colors[i + 1] = b })

BothColours(column_colors) ==
  /\ \E i \in 1..Len(column_colors) : column_colors[i] = "red"
  /\ \E i \in 1..Len(column_colors) : column_colors[i] = "black"

\* C21: when both colours are present the classifier's result is the
\* transition kind with strictly more transitions, and no_crossing when the
\* two counts are equal, both zero included.
C21_MajorityTransition ==
  \A column_colors \in ClassifierInputs :
     (Classifies(column_colors) /\ BothColours(column_colors))
     => LET rb == Adjacent(column_colors, "red", "black")
            br == Adjacent(column_colors, "black", "red")
        IN  /\ rb > br => call.result.result = "red_to_black"
            /\ br > rb => call.result.result = "black_to_red"
            /\ rb = br => call.result.result = "no_crossing"

\* A tie of one transition each, with both colours present.
C21_Witness ==
  /\ Classifies(<<"red", "black", "red">>)
  /\ call.result.result = "no_crossing"
  /\ Len(call.result.red_to_black) = 1
  /\ Len(call.result.black_to_red) = 1

\* A column with r red and b black pixels has been labelled.
Labelled(r, b) ==
  /\ call.f = "column_color"
  /\ call.done
  /\ call.arg = << r, b >>

\* C22: with a the red count less one (not below zero), a column is labelled
\* red iff a > 0 and a >= b, otherwise black iff b > 0, otherwise unknown; a
\* tie a = b > 0 is red, and one red pixel with no black pixel is unknown.
C22_ColumnLabel ==
  \A r \in 0..MaxPixels, b \in 0..MaxPixels :
     Labelled(r, b)
     => LET a == IF r >= 1 THEN r - 1 ELSE 0
        IN  /\ call.result = "red" <=> (a > 0 /\ a >= b)
            /\ ~(a > 0 /\ a >= b) => (call.result = "black" <=> b > 0)
            /\ (~(a > 0 /\ a >= b) /\ ~(b > 0)) => call.result = "unknown"
            /\ (a = b /\ a > 0) => call.result = "red"
            /\ (r = 1 /\ b = 0) => call.result = "unknown"

\* One red pixel, the fixed line, and no black pixel.
C22_Witness ==
  /\ Labelled(1, 0)
  /\ call.result = "unknown"

\* C23: a transition is recorded at column index i (counted from 0) iff the
\* labels of columns i-1 and i are red then black (red_to_black) or black
\* then red (black_to_red): directly adjacent, both known, different.  An
\* unknown column between a red and a black one gives none.  Every recorded
\* index lies in 1..width-1 and no index is in both lists.
C23_TransitionIffAdjacent ==
  \A column_colors \in ClassifierInputs :
     Classifies(column_colors)
     => LET width == Len(column_colors)
            rb    == Range(call.result.red_to_black)
            br    == Range(call.result.black_to_red)
            \* column i of the code is column_colors[i + 1]
            label(i) == column_colors[i + 1]
        IN  /\ \A i \in 1..(width - 1) :
                 /\ i \in rb <=> (label(i - 1) = "red" /\ label(i) = "black")
                 /\ i \in br <=> (label(i - 1) = "black" /\ label(i) = "red")
            /\ rb \subseteq 1..(width - 1)
            /\ br \subseteq 1..(width - 1)
            /\ rb \cap br = {}

\* Red and black with an unknown column between them, then red again.
C23_Witness ==
  /\ Classifies(<<"red", "unknown", "black", "red">>)
  /\ call.result.red_to_black = << >>
  /\ call.result.black_to_red = << 3 >>

\* The label of the highest-index column whose label is not unknown, and
\* unknown when there is none.
LastKnown(column_colors) ==
  IF \A i \in 1..Len(column_colors) : column_colors[i] = "unknown"
  THEN "unknown"
  ELSE LET i == CHOOSE i \in 1..Len(column_colors) :
                  /\ column_colors[i] # "unknown"
                  /\ \A j \in (i + 1)..Len(column_colors) :
                        column_colors[j] = "unknown"
       IN  column_colors[i]

\* C24: the rightmost colour is the label of the highest-index column whose
\* label is not unknown, and unknown when every column is unknown or there
\* are no columns; the classifier returns it on the single-colour path and
\* on the two-colour path.
C24_RightmostKnownLabel ==
  /\ \A column_colors \in ClassifierInputs :
        Classifies(column_colors)
        => call.result.rightmost_color = LastKnown(column_colors)
  /\ \A column_colors \in RightmostInputs :
        ( /\ call.f = "get_rightmost_column_color"
          /\ call.done
          /\ call.arg = column_colors )
        => call.result = LastKnown(column_colors)

\* The two-colour path, with an unknown column at the right end.
C24_Witness ==
  /\ Classifies(<<"red", "black", "unknown">>)
  /\ call.result.result = "red_to_black"
  /\ call.result.rightmost_color = "black"

\* extract_middle_section has returned.
Extracted ==
  /\ call.f = "extract_middle_section"
  /\ call.done

\* C25: for every image of positive width and height and every choice of x
\* and y bounds, given or defaulted, the region extract_middle_section
\* returns is at least one pixel wide and one pixel high and lies inside the
\* image.
C25_RegionNeverEmpty ==
  Extracted
  => /\ call.result.cols.size >= 1
     /\ call.result.rows.size >= 1
     /\ call.result.cols.offset + call.result.cols.size <= call.arg.width
     /\ call.result.rows.offset + call.result.rows.size <= call.arg.height

\* The step is a loop iteration that found the image unchanged: it ends with
\* the line "Chart image unchanged since last check".
UnchangedPoll ==
  /\ Len(log') > Len(log)
  /\ log'[Len(log')].msg = Unchanged

\* C26: a poll whose image is judged not different from the last saved one
\* classifies and decides nothing: it appends no "Line crossing detected" and
\* no "Current line color" entry, sends no notification and leaves the last
\* saved image as it was, whatever the calendar day.
C26_UnchangedPollDecidesNothing ==
  [][ UnchangedPoll
      => /\ \A i \in (Len(log) + 1)..Len(log') :
               log'[i].msg \notin {LineCrossing, CurrentColor}
         /\ SubSeq(log', 1, Len(log)) = log
         /\ emails' = emails
         /\ polls' = polls
         /\ last_saved_image' = last_saved_image
         /\ chart_file' = chart_file ]_vars

\* An unchanged poll on a later day than the last analysis, which notified.
C26_Witness ==
  /\ Len(log) > 0
  /\ log[Len(log)].msg = Unchanged
  /\ Len(polls) > 0
  /\ polls[Len(polls)].notify
  /\ \E i \in 1..Len(log) :
        /\ log[i].msg = CurrentColor
        /\ log[i].day < log[Len(log)].day

\* images_are_different has returned.
Compared ==
  /\ call.f = "images_are_different"
  /\ call.done

\* Either image is absent.
Absent == call.arg.img1 = NoImage \/ call.arg.img2 = NoImage

\* The two images are the same: both there, of one shape, no pixel differing.
SameImages ==
  /\ ~Absent
  /\ call.arg.same_shape
  /\ call.arg.non_zero_count = 0

ConsecutiveColours(i, j) ==
  /\ i < j
  /\ log[i].msg = CurrentColor
  /\ log[j].msg = CurrentColor
  /\ \A n \in (i + 1)..(j - 1) : log[n].msg # CurrentColor

\* C28: whenever two consecutive "Current line color" entries carry different
\* known colours, a "Line crossing detected" entry of the matching kind lies
\* between them.
C28_ColourChangeHasCrossing ==
  \A i, j \in 1..Len(log) :
     ( /\ ConsecutiveColours(i, j)
       /\ log[i].arg \in Colors
       /\ log[j].arg \in Colors
       /\ log[i].arg # log[j].arg )
     => \E n \in (i + 1)..(j - 1) :
           /\ log[n].msg = LineCrossing
           /\ log[n].arg = Inferred(log[i].arg, log[j].arg)

\* The delivery of email e failed, and decision n is a later one of the same
\* day as the entry e was for, on the same kind of crossing, with no crossing
\* entry written in between.
AfterFailedDelivery(e, n) ==
  /\ emails[e].outcome = "error"
  /\ polls[n].first >= emails[e].line
  /\ polls[n].today = log[emails[e].line].day
  /\ polls[n].effective_crossing = emails[e].crossing_type
  /\ \A i \in (emails[e].line + 1)..polls[n].first : log[i].msg # LineCrossing

\* C29: a failed notification is not retried.  After the email for a crossing
\* of kind K has failed on day D, a later poll on day D whose effective
\* crossing is K, no other crossing having been logged in between, does not
\* notify and makes no email attempt.
C29_FailedDeliveryNotRetried ==
  \A e \in 1..Len(emails), n \in 1..Len(polls) :
     AfterFailedDelivery(e, n)
     => /\ ~polls[n].notify
        /\ \A f \in 1..Len(emails) :
              emails[f].line \notin (polls[n].first + 1)..polls[n].last

\* Two polls on the same kind after one failed delivery, the same day.
C29_Witness ==
  \E e \in 1..Len(emails), n, m \in 1..Len(polls) :
     /\ n < m
     /\ AfterFailedDelivery(e, n)
     /\ AfterFailedDelivery(e, m)

\* Line i of the log is a colour snapshot whose colour is unknown.
UnknownSnapshot(i) ==
  /\ log[i].msg = CurrentColor
  /\ log[i].arg = "unknown"

\* Line i is the newest colour snapshot of the log as decision p found it.
NewestSnapshot(p, i) ==
  /\ i \in 1..p.first
  /\ log[i].msg = CurrentColor
  /\ \A j \in (i + 1)..p.first : log[j].msg # CurrentColor

\* C30: a colour snapshot whose rightmost colour is unknown does not change
\* the comparison baseline: the last colour read back from the history after
\* it is appended is the known colour, or the absence of one, read before, and
\* that is the last colour the next decision compares with.
C30_UnknownSnapshotKeepsBaseline ==
  /\ \A i \in 1..Len(log) :
        UnknownSnapshot(i)
        => get_last_color(SubSeq(log, 1, i), TRUE)
             = get_last_color(SubSeq(log, 1, i - 1), TRUE)
  /\ \A n \in 1..Len(polls), i \in 1..Len(log) :
        (NewestSnapshot(polls[n], i) /\ UnknownSnapshot(i))
        => polls[n].last_color = LastColor(SubSeq(log, 1, i - 1))

\* A decision taken after an unknown snapshot, against the known colour
\* logged before it, from which it infers a crossing.
C30_Witness ==
  \E n \in 1..Len(polls), i \in 1..Len(log) :
     /\ NewestSnapshot(polls[n], i)
     /\ UnknownSnapshot(i)
     /\ polls[n].last_color \in Colors
     /\ polls[n].manual_color_crossing # "no_crossing"

\* Lines i < j of the log are consecutive "Line crossing detected" entries.
ConsecutiveCrossings(i, j) ==
  /\ i < j
  /\ log[i].msg = LineCrossing
  /\ log[j].msg = LineCrossing
  /\ \A n \in (i + 1)..(j - 1) : log[n].msg # LineCrossing

\* C31: in a test-harness run a crossing is logged only when its kind differs
\* from the last logged crossing kind, whatever the simulated date; two
\* consecutive crossing entries of the harness log never have the same kind,
\* on different simulated days either.
C31_HarnessLogsNewKindOnly ==
  /\ \A n \in 1..Len(polls) :
        polls[n].notify
        <=> /\ polls[n].effective_crossing # "no_crossing"
            /\ polls[n].effective_crossing # LastKind(History(polls[n]))
  /\ \A n \in 1..Len(polls) :
        polls[n].notify
        <=> /\ polls[n].last > polls[n].first
            /\ log[polls[n].first + 1].msg = LineCrossing
  /\ \A i, j \in 1..Len(log) :
        ConsecutiveCrossings(i, j) => log[i].arg # log[j].arg

\* The same kind of crossing met on a later simulated day and not logged
\* again, with two crossing entries in the log.
C31_Witness ==
  /\ \E n \in 1..Len(polls) :
        /\ ~polls[n].notify
        /\ polls[n].effective_crossing # "no_crossing"
        /\ \E i \in 1..polls[n].first :
              /\ log[i].msg = LineCrossing
              /\ log[i].arg = polls[n].effective_crossing
              /\ log[i].day < polls[n].today
  /\ \E i, j \in 1..Len(log) : ConsecutiveCrossings(i, j)

\* Line i belongs to the run that line r started: r is the newest
\* "Monitoring started" line before i.
InRun(r, i) ==
  /\ r < i
  /\ log[r].msg = Started
  /\ \A n \in (r + 1)..i : log[n].msg # Started

\* Line j is the newest entering or exiting line before line i in the run
\* that line r started.
LastWindowLine(r, j, i) ==
  /\ r < j /\ j < i
  /\ log[j].msg \in {Entering, Exiting}
  /\ \A n \in (j + 1)..(i - 1) : log[n].msg \notin {Entering, Exiting}

\* C32: with the monitoring window enabled, the "Entering monitoring window"
\* and "Exiting monitoring window" entries of one run alternate, beginning
\* with an entering one; no exit is logged without an unmatched enter before
\* it, and downloads happen only between an enter and the next exit.
C32_WindowEntriesAlternate ==
  \A r, i \in 1..Len(log) :
     InRun(r, i)
     => /\ log[i].msg = Entering
           => \A j \in 1..Len(log) :
                 LastWindowLine(r, j, i) => log[j].msg = Exiting
        /\ log[i].msg = Exiting
           => \E j \in 1..Len(log) :
                 LastWindowLine(r, j, i) /\ log[j].msg = Entering
        /\ ( /\ log[i].msg \in {Downloaded, DownloadFailed}
             /\ \E w \in (r + 1)..i : log[w].msg = WindowLine )
           => \E j \in 1..Len(log) :
                 LastWindowLine(r, j, i) /\ log[j].msg = Entering

\* One run that entered the window, left it and entered it again, with a
\* download after each enter.
C32_Witness ==
  \E r, a, b, c, d \in 1..Len(log) :
     /\ InRun(r, d)
     /\ r < a /\ a < b /\ b < c /\ c < d
     /\ log[a].msg = Entering
     /\ log[b].msg = Exiting
     /\ log[c].msg = Entering
     /\ log[d].msg \in {Downloaded, DownloadFailed}

\* A finished call of determine_color.
Determined == call.f = "determine_color" /\ call.done

\* The pairs of consecutive values that differ, named by the later member.
DifferingPairs(values) ==
  { i \in 2..Len(values) : values[i] # values[i - 1] }

\* C40: determine_color returns the colour of the most recent pair of
\* consecutive values that differ, Black if the later value of that pair is
\* the greater and Red if it is the smaller: the latest pair when the latest
\* value differs from the previous one, and the most recent earlier one when
\* they are equal.  It returns None if and only if fewer than two values are
\* given or all values are equal.
C40_ColourOfLatestDifference ==
  Determined =>
    LET values == call.arg
        pairs  == DifferingPairs(values)
    IN  /\ (call.result = None) <=> (Len(values) < 2 \/ pairs = {})
        /\ pairs # {} =>
             LET i == CHOOSE k \in pairs : \A m \in pairs : m <= k
             IN  call.result = IF values[i] > values[i - 1]
                               THEN "Black" ELSE "Red"

\* Equal latest values after a rise that is the oldest pair.
C40_Witness ==
  /\ Determined
  /\ Len(call.arg) = 4
  /\ call.arg[1] < call.arg[2]
  /\ call.arg[2] = call.arg[3]
  /\ call.arg[3] = call.arg[4]
  /\ call.result = "Black"

\* The n most recent of a set of dates.
MostRecent(dates, n) ==
  { d \in dates : Cardinality({ e \in dates : e > d }) < n }

\* C36: after any sequence of save_state calls the stored history holds at
\* most 10 entries, ordered newest date first with no date twice, and its
\* dates are the 10 most recent distinct dates saved since the file last had
\* no readable history.
C36_HistoryTenMostRecent ==
  state_file.kind = "new" =>
    LET history == state_file.history
    IN  /\ Len(history) <= 10
        /\ \A i, j \in 1..Len(history) :
              i < j => history[i].date > history[j].date
        /\ { history[i].date : i \in 1..Len(history) }
             = MostRecent(saved_dates, 10)

\* More than 10 dates saved, the oldest of them dropped.
C36_Witness ==
  /\ state_file.kind = "new"
  /\ Cardinality(saved_dates) > 10
  /\ Len(state_file.history) = 10
  /\ \E d \in saved_dates :
        \A i \in 1..Len(state_file.history) : state_file.history[i].date # d

\* A call of save_state that wrote the file, with a date not older than any
\* date of the history it found.
SavedCurrent ==
  /\ call.f = "save_state"
  /\ call.written
  /\ \A d \in DatesOf(call.before) : d <= call.arg.date

\* C34: after save_state(color, date, value) with a date not older than
\* every date in the stored history, load_last_state returns that color, date
\* and value, including when the history already holds an entry for the
\* same date.
C34_LoadReturnsSaved ==
  SavedCurrent => load_last_state(state_file) = << call.arg >>

\* The colour saved in a state file, as load_last_state reports it: none or
\* one.
SavedColour(file) ==
  IF load_last_state(file) = << >> THEN {}
  ELSE { load_last_state(file)[1].color }

\* C33: check_once attempts a colour-change email if and only if a colour
\* was saved before the call and differs from the colour it determines;
\* when no colour can be determined or no data is fetched it sends nothing
\* and leaves the state file as it found it.
C33_EmailIffSavedColourDiffers ==
  \A n \in 1..Len(polls) :
     LET p == polls[n]
     IN  /\ (p.emails # << >>)
              <=> (p.color # None /\ SavedColour(p.before) # {}
                   /\ p.color \notin SavedColour(p.before))
         /\ p.color = None => (p.emails = << >> /\ p.after = p.before)

\* C35: after a check_once that detected a colour change and saved the new
\* state, a check_once on the same fetched data detects no colour change
\* and sends no further email.  The data fetched is no older than the state
\* stored before the first of the two calls.
C35_SecondCheckSilent ==
  \A n \in 1..(Len(polls) - 1) :
     (/\ polls[n].emails # << >>
      /\ polls[n].written
      /\ \A d \in DatesOf(polls[n].before) :
            d <= polls[n].data[Len(polls[n].data)].date
      /\ polls[n + 1].data = polls[n].data)
       => polls[n + 1].emails = << >>

\* C37: on a first run with no state file check_once sends no colour-change
\* email: the colour _build_initial_history stored for the latest date is
\* the colour determine_color returns for the same data.
C37_FirstRunSilent ==
  \A n \in 1..Len(polls) :
     polls[n].before.kind = "missing" =>
        /\ polls[n].emails = << >>
        /\ polls[n].built.kind = "new" =>
              SavedColour(polls[n].built) = { polls[n].color }

\* The calls of check_once made by the loop of the numeric monitor.
LoopChecks == { n \in 1..Len(polls) : polls[n].by # "initial" }

\* C38: once the loop has processed a day's data (check_once called because
\* the latest data is dated today), it does not call check_once again until
\* the calendar date has changed, whichever the window: within the day,
\* crossing midnight, or none.
C38_OneCheckPerDay ==
  pc = "running" =>
    \A m, n \in LoopChecks :
       (m < n /\ polls[m].by = "today") => polls[n].day > polls[m].day

\* C39: with no monitoring window every iteration of the loop calls
\* check_once, whether or not data dated today has arrived.
C39_NoWindowChecksEveryIteration ==
  (pc = "running" /\ monitoring_window = NoWindow) =>
    \A i \in 1..iter : \E n \in LoopChecks : polls[n].iter = i

====
